---- MODULE Spec2Model ----
(***************************************************************************)
(* A model of the quran-renderer core (src/src/core/quran_renderer.cpp    *)
(* and src/src/core/hb_skia_canvas.cpp): renderer construction, the page   *)
(* geometry of drawPage, the per-line justification and glyph walk of      *)
(* drawLine, and the colour resolution of the paint callback.              *)
(*                                                                         *)
(* Numbers.  C++ int stays an integer.  A double is modelled as an exact   *)
(* rational <<n, d>> (d > 0, lowest terms); a conversion double -> int is  *)
(* RatTrunc.  A float argument of the public API is carried in quarters    *)
(* (fontScale = 6 is 1.5f), which a float holds exactly.                   *)
(***************************************************************************)
EXTENDS Integers, Sequences, FiniteSets, TLC

VARIABLES
    renderer,   \* the QuranRendererHandle: NullRenderer or the QuranRendererImpl fields
    pc,         \* position of the one draw_page activation: "idle" or "lines"
    args,       \* arguments of the running drawPage call (NoCall when idle)
    geo,        \* locals of drawPage computed before the line loop
    lineIndex,  \* loop variable of drawPage
    shaped,     \* glyph run hb_shape returned for the line being drawn (NoRun outside drawLine)
    line,       \* what drawLine did for the line drawn last (NoLine before the first)
    drawnDescent, \* largest line descent (font units) drawn so far in this call
    ret,        \* outcome of the last API call
    call,       \* buffer, page index and tajweed flag passed to the last draw_page call
    pixels,     \* what the caller's pixel buffer holds
    lookup,     \* the last metadata lookup: its inputs, return value and output struct
    threads,    \* activations of draw calls that share the instance without a lock
    wrap,       \* locals of the running multi-line text call: words, lines built, lines drawn
    plan,       \* locals of the page measurement: line extents, running maxima, result
    kotlin,     \* fields of the Kotlin QuranRenderer and the g_renderer of its JNI library
    funcs,      \* the process-wide callback tables, their lazy singletons and the live renderers
    paint       \* the glyph loop of one drawLine or draw_text call: position and what was painted

vars == <<renderer, pc, args, geo, lineIndex, shaped, line, drawnDescent, ret, call, pixels, lookup, threads, wrap, plan, kotlin, funcs, paint>>

\* state of the text wrapping, page measurement, Kotlin binding and callback tables
later == <<wrap, plan, kotlin, funcs, paint>>

(***************************************************************************)
(* Bounds of the model                                                     *)
(***************************************************************************)
MaxUnits == 5
MaxPageLines == 2
MaxRenderers == 3
MaxGlyphs == 2   \* longest shaped run the shaping engine returns

(***************************************************************************)
(* Program constants                                                       *)
(***************************************************************************)
QURAN_PAGE_COUNT == 604
LinesPerPage == 15
spaceCodePoint == 3
TajweedLookupStart == 152
TajweedDisabledIndex == 65535
GposLookupThreshold == 150
MinFontScale == 2     \* 0.5f in quarters
MaxFontScale == 8     \* 2.0f in quarters

NullRenderer == [null |-> TRUE]
NullConfig == [null |-> TRUE]
NoCall == [none |-> TRUE]
NoLine == [none |-> TRUE]
NoRun == <<>>

(***************************************************************************)
(* double arithmetic as exact rationals                                    *)
(***************************************************************************)
Abs(x) == IF x < 0 THEN -x ELSE x

RECURSIVE GCD(_, _)
GCD(a, b) == IF b = 0 THEN a ELSE GCD(b, a % b)

Rat(n, d) ==
    LET s == IF d < 0 THEN -1 ELSE 1
        g == GCD(Abs(n), Abs(d))
    IN  <<(s * n) \div g, (s * d) \div g>>

RatOfInt(n) == <<n, 1>>

RatMul(a, b) ==
    LET g1 == GCD(Abs(a[1]), b[2])
        g2 == GCD(Abs(b[1]), a[2])
    IN  Rat((a[1] \div g1) * (b[1] \div g2), (a[2] \div g2) * (b[2] \div g1))

RatDiv(a, b) == RatMul(a, IF b[1] < 0 THEN <<-b[2], -b[1]>> ELSE <<b[2], b[1]>>)

RatAdd(a, b) ==
    LET g == GCD(a[2], b[2])
        l == (a[2] \div g) * b[2]
    IN  Rat(a[1] * (l \div a[2]) + b[1] * (l \div b[2]), l)

RatNeg(a) == <<-a[1], a[2]>>

RatSub(a, b) == RatAdd(a, RatNeg(b))

RatLess(a, b) ==
    LET g == GCD(a[2], b[2])
    IN  a[1] * (b[2] \div g) < b[1] * (a[2] \div g)

RatLeq(a, b) == ~RatLess(b, a)

RatAbs(a) == <<Abs(a[1]), a[2]>>

\* static_cast<int>(double): truncation toward zero
RatTrunc(a) == IF a[1] >= 0 THEN a[1] \div a[2] ELSE -((-a[1]) \div a[2])

Max(a, b) == IF a > b THEN a ELSE b
Min(a, b) == IF a < b THEN a ELSE b

(***************************************************************************)
(* Colours.  HB_COLOR(b, g, r, a) keeps its four arguments in order.       *)
(***************************************************************************)
HB_COLOR(b, g, r, a) == <<b, g, r, a>>

(***************************************************************************)
(* Single precision.  A float is <<m, e>>, the value m * 2^e, with m = 0   *)
(* or 2^23 <= m < 2^24; every operation rounds to nearest, ties to even,   *)
(* as the float expression of calculateLuminance does when each operation  *)
(* is rounded on its own.                                                  *)
(***************************************************************************)
RECURSIVE Pow2(_)
Pow2(n) == IF n = 0 THEN 1 ELSE 2 * Pow2(n - 1)

F32Zero == <<0, 0>>

\* q with the s bits below it (rem) rounded away
F32RoundedMantissa(q, rem, s, e) ==
    LET up == 2 * rem > Pow2(s) \/ (2 * rem = Pow2(s) /\ q % 2 = 1)
        m == IF up THEN q + 1 ELSE q
    IN  IF m = Pow2(24) THEN <<Pow2(23), e + s + 1>> ELSE <<m, e + s>>

\* the float nearest to S * 2^e, 2^23 <= S < 2^29; a set lowest bit of S
\* stands for bits lost below it
F32Normalize(S, e) ==
    LET s == CHOOSE k \in 0..5 : Pow2(23 + k) <= S /\ S < Pow2(24 + k)
    IN  F32RoundedMantissa(S \div Pow2(s), S % Pow2(s), s, e)

\* c * (float)n for a byte n: the 32-bit product of the mantissa and n,
\* kept in two parts
F32MulByte(c, n) ==
    IF n = 0 THEN F32Zero
    ELSE LET A == (c[1] \div 256) * n
             B == (c[1] % 256) * n
             A2 == A + B \div 256
             Bl == B % 256
             s == CHOOSE k \in 0..8 : Pow2(15 + k) <= A2 /\ A2 < Pow2(16 + k)
         IN  F32RoundedMantissa(A2 * Pow2(8 - s) + Bl \div Pow2(s), Bl % Pow2(s), s, c[2])

\* x + y for x, y >= 0: three guard bits, the last one sticky
F32Add(x, y) ==
    IF x[1] = 0 THEN y
    ELSE IF y[1] = 0 THEN x
    ELSE LET big == IF x[2] >= y[2] THEN x ELSE y
             small == IF x[2] >= y[2] THEN y ELSE x
             d == big[2] - small[2]
             shifted == IF d >= 27 THEN 0 ELSE (small[1] * 8) \div Pow2(d)
             lost == IF d >= 27 THEN TRUE ELSE (small[1] * 8) % Pow2(d) # 0
             Y == IF lost /\ shifted % 2 = 0 THEN shifted + 1 ELSE shifted
         IN  F32Normalize(big[1] * 8 + Y, big[2] - 3)

\* the quotient of m * 2^k by 255, bit by bit
RECURSIVE DivBy255(_, _, _)
DivBy255(q, r, k) ==
    IF k = 0 THEN <<q, r>>
    ELSE IF 2 * r >= 255 THEN DivBy255(2 * q + 1, 2 * r - 255, k - 1)
    ELSE DivBy255(2 * q, 2 * r, k - 1)

\* x / 255.0f
F32DivBy255(x) ==
    IF x[1] = 0 THEN F32Zero
    ELSE LET qr == DivBy255(x[1] \div 255, x[1] % 255, 10)
             S == 2 * qr[1] + (IF qr[2] # 0 THEN 1 ELSE 0)
         IN  F32Normalize(S, x[2] - 11)

\* x < 0.5f for x >= 0
F32LessThanHalf(x) == x[1] = 0 \/ x[2] < -24

\* 0.299f, 0.587f, 0.114f
LumaRed == <<10032775, -25>>
LumaGreen == <<9848226, -24>>
LumaBlue == <<15300821, -27>>

\* backgroundColor is 0xRRGGBBAA, carried as its four bytes <<R, G, B, A>>
calculateLuminance(r, g, b) ==
    F32DivBy255(F32Add(F32Add(F32MulByte(LumaRed, r), F32MulByte(LumaGreen, g)),
                       F32MulByte(LumaBlue, b)))

isDarkBackground(backgroundColor) ==
    F32LessThanHalf(calculateLuminance(backgroundColor[1], backgroundColor[2],
                                       backgroundColor[3]))

getTextColorForBackground(backgroundColor) ==
    IF isDarkBackground(backgroundColor)
    THEN HB_COLOR(255, 255, 255, 255)
    ELSE HB_COLOR(0, 0, 0, 255)

(***************************************************************************)
(* The static corpus and the font: data the renderer is linked with or     *)
(* handed.  A corpus line is known to the classifier only by what its text *)
(* matches: "bism" (one of the two invocation strings), "sura" (begins     *)
(* with the title word) or "text".                                         *)
(***************************************************************************)
Body15 == <<"sura", "bism", "text", "text", "sura", "bism", "text", "text",
            "text", "sura", "bism", "text", "text", "text", "text">>

Shifted15 == <<"text", "text", "text", "sura", "bism", "text", "text", "text",
               "sura", "bism", "text", "text", "text", "bism", "text">>

Fatiha8 == <<"sura", "bism", "text", "text", "text", "text", "text", "text">>

qurantextA == (0 :> Fatiha8) @@ (603 :> Body15)
qurantextB == (0 :> Fatiha8) @@ (603 :> Shifted15)

FontEmbedded == [ok |-> TRUE, upem |-> 1000, gpos_lookup_count |-> 160]
FontPlain    == [ok |-> TRUE, upem |-> 1000, gpos_lookup_count |-> 140]
FontBroken   == [ok |-> FALSE, upem |-> 0, gpos_lookup_count |-> 0]

(***************************************************************************)
(* QuranRendererImpl(): the special line widths                            *)
(***************************************************************************)
InitialLineWidths ==
    (15 * 585 + 0   :> Rat(81, 100))  @@ (15 * 592 + 1  :> Rat(81, 100)) @@
    (15 * 593 + 4   :> Rat(63, 100))  @@ (15 * 599 + 9  :> Rat(63, 100)) @@
    (15 * 601 + 4   :> Rat(63, 100))  @@ (15 * 601 + 10 :> Rat(9, 10))   @@
    (15 * 601 + 14  :> Rat(53, 100))  @@ (15 * 602 + 9  :> Rat(66, 100)) @@
    (15 * 602 + 14  :> Rat(60, 100))  @@ (15 * 603 + 3  :> Rat(55, 100)) @@
    (15 * 603 + 8   :> Rat(55, 100))  @@ (15 * 603 + 13 :> Rat(675, 1000)) @@
    (15 * 603 + 14  :> Rat(5, 10))

(***************************************************************************)
(* parseQuranText                                                          *)
(***************************************************************************)
\* 100 * sin(degree) at degree = 30 + (lineIndex - 1) * (180 - 52.5) / 6,
\* to the nearest integer
FatihaSin100(li) ==
    CASE li = 1 -> 50    \* 30
      [] li = 2 -> 78    \* 51.25
      [] li = 3 -> 95    \* 72.5
      [] li = 4 -> 100   \* 93.75
      [] li = 5 -> 91    \* 115
      [] li = 6 -> 69    \* 136.25
      [] li = 7 -> 38    \* 157.5
      [] OTHER -> 0

\* lineWidth / pageWidth with diameter = pageWidth * 0.9
FatihaLineWidth(li) == Rat(9 * FatihaSin100(li), 1000)

ClassifyLine(kind) ==
    IF kind = "bism" THEN [line_type |-> "Bism", just_type |-> "center"]
    ELSE IF kind = "sura" THEN [line_type |-> "Sura", just_type |-> "center"]
    ELSE [line_type |-> "Line", just_type |-> "just"]

\* the classification alone, without the branch for the first two pages
ClassifyLineOnAnyPage(pageIndex, li, kind) == ClassifyLine(kind)

ParseLine(pageIndex, li, kind) ==
    IF pageIndex = 0 \/ pageIndex = 1
    THEN IF li > 0
         THEN [line_type |-> "Line", just_type |-> "just"]
         ELSE [ClassifyLine(kind) EXCEPT !.just_type = "center"]
    ELSE ClassifyLine(kind)

ParsePages(qurantext) ==
    [p \in DOMAIN qurantext |->
        [i \in 1..Len(qurantext[p]) |-> ParseLine(p, i - 1, qurantext[p][i])]]

ParseLineWidths(qurantext, lineWidths) ==
    LET keys == {15 * p + (i - 1) :
                    p \in (DOMAIN qurantext) \cap {0, 1},
                    i \in 2..LinesPerPage}
        fatiha == {k \in keys : (k % 15) + 1 <= Len(qurantext[k \div 15])}
    IN  [k \in fatiha |-> FatihaLineWidth(k % 15)] @@ lineWidths

(***************************************************************************)
(* initialize / quran_renderer_create                                      *)
(***************************************************************************)
DetectTajweedColorIndex(gpos_lookup_count) ==
    IF gpos_lookup_count > GposLookupThreshold
    THEN TajweedLookupStart
    ELSE TajweedDisabledIndex

\* font->coords == nullptr
NullCoords == <<>>

NewRenderer(font, qurantext) ==
    [ face |-> font,
      upem |-> font.upem,
      pages |-> ParsePages(qurantext),
      lineWidths |-> ParseLineWidths(qurantext, InitialLineWidths),
      tajweed |-> TRUE,
      tajweedcolorindex |-> DetectTajweedColorIndex(font.gpos_lookup_count),
      features_value |-> 1,
      font_num_coords |-> 0,
      font_coords |-> NullCoords ]

Create(Fonts, Corpora) ==
    /\ pc = "idle"
    /\ renderer = NullRenderer
    /\ \E font \in Fonts, qurantext \in Corpora :
          /\ font.ok
          /\ renderer' = NewRenderer(font, qurantext)
    /\ ret' = "created"
    /\ UNCHANGED <<pc, args, geo, lineIndex, shaped, line, drawnDescent>>
    /\ UNCHANGED <<call, pixels, lookup, threads>>
    /\ UNCHANGED later

CreateFails(Fonts) ==
    /\ pc = "idle"
    /\ renderer = NullRenderer
    /\ \E font \in Fonts : ~font.ok
    /\ ret' = "create_failed"
    /\ UNCHANGED <<renderer, pc, args, geo, lineIndex, shaped, line, drawnDescent>>
    /\ UNCHANGED <<call, pixels, lookup, threads>>
    /\ UNCHANGED later

(***************************************************************************)
(* drawPage: font size, pitch, margins                                     *)
(***************************************************************************)
ClampedScale(fontScale) == Max(MinFontScale, Min(MaxFontScale, fontScale))

\* static_cast<int>((width / 17.0) * 0.9)
BaseCharHeight(width) == (9 * width) \div 170

\* one rounding of the product instead of two truncations
CharHeightRounded(width, fontScale, fontSize) ==
    IF fontSize > 0
    THEN fontSize
    ELSE (18 * width * ClampedScale(fontScale) + 680) \div 1360

CharHeight(width, fontScale, fontSize) ==
    IF fontSize > 0
    THEN fontSize
    ELSE (BaseCharHeight(width) * ClampedScale(fontScale)) \div 4

\* int inter_line = height / 15; lineHeightDivisor is not read by drawPage
InterLine(height, lineHeightDivisor) == height \div 15

\* int x_padding = width / 42.5
XPadding(width) == (2 * width) \div 85

EffectiveTopMargin(topMarginLines) == IF topMarginLines < 0 THEN 0 ELSE topMarginLines

YStart(inter_line, topMarginLines) ==
    LET base == (72 * inter_line) \div 100
        m == EffectiveTopMargin(topMarginLines)
    IN  IF m > 0 THEN base + (m * inter_line) \div 4 ELSE base

PageGeometry(a, upem) ==
    LET char_height == CharHeight(a.width, a.fontScale, a.fontSize)
        inter_line == InterLine(a.height, a.lineHeightDivisor)
        x_padding == XPadding(a.width)
        renderScale == Rat(char_height, upem)
    IN  [ char_height |-> char_height,
          inter_line |-> inter_line,
          x_padding |-> x_padding,
          renderScale |-> renderScale,
          pageWidth |-> RatDiv(RatOfInt(a.width - 2 * x_padding), renderScale),
          y_start |-> YStart(inter_line, a.topMarginLines),
          x_start |-> a.width - x_padding,
          textColor |-> getTextColorForBackground(a.backgroundColor),
          use_foreground_override |-> a.useForeground ]

(***************************************************************************)
(* quran_renderer_draw_page                                                *)
(***************************************************************************)
\* QuranPixelFormat (renderer.h) and the Skia colour type a canvas is made with
PixelFormats == {"RGBA8888", "BGRA8888"}

\* format == QURAN_PIXEL_FORMAT_BGRA8888 ? kBGRA_8888_SkColorType : kRGBA_8888_SkColorType
ColorTypeOf(format) ==
    IF format = "BGRA8888" THEN "kBGRA_8888_SkColorType" ELSE "kRGBA_8888_SkColorType"

\* the caller's buffer before any entry point wrote to it
Untouched ==
    [ by |-> "nobody", format |-> "none", colorType |-> "none", background |-> <<>>,
      textType |-> "none", textColor |-> <<>> ]

\* canvas->drawColor(color) on a canvas made with colorType; it blends with
\* SrcOver, so a transparent colour changes nothing and any other covers
\* what was drawn before
DrawColor(px, colorType, color) ==
    IF color[4] = 0 THEN px
    ELSE [ px EXCEPT !.colorType = colorType, !.background = color,
                     !.textType = "none", !.textColor = <<>> ]

\* the buffer after MakeRasterDirect with colorType and canvas->drawColor(background),
\* for the entry point the caller called and the format the caller asked for
Filled(px, entry, format, colorType, background) ==
    [ DrawColor(px, colorType, background) EXCEPT !.by = entry, !.format = format ]

NoLookup == [ op |-> "none" ]
NoThreads == <<>>
NoWrap == [ at |-> "none" ]
NoPlan == [ at |-> "none" ]
NoKotlin == [ at |-> "none" ]
NoFuncs == [ at |-> "none" ]

\* no text is being wrapped, no page measured, no binding or callback table exists
NoPaint == [ at |-> "none", painted |-> <<>> ]
LaterIdle == wrap = NoWrap /\ plan = NoPlan /\ kotlin = NoKotlin /\ funcs = NoFuncs /\ paint = NoPaint

DefaultConfig ==
    [ tajweed |-> TRUE, justify |-> TRUE, fontScale |-> 4,
      backgroundColor |-> <<255, 255, 255, 255>>, fontSize |-> 0,
      useForeground |-> FALSE, lineHeightDivisor |-> 0, topMarginLines |-> -4 ]

\* the arguments drawPage receives: config ? config->field : default
CallArgs(c) ==
    LET config == IF c.config = NullConfig THEN DefaultConfig ELSE c.config
    IN  [ width |-> c.width, height |-> c.height, pageIndex |-> c.pageIndex,
          tajweed |-> config.tajweed, justify |-> config.justify,
          fontScale |-> config.fontScale,
          backgroundColor |-> config.backgroundColor,
          fontSize |-> config.fontSize, useForeground |-> config.useForeground,
          lineHeightDivisor |-> config.lineHeightDivisor,
          topMarginLines |-> config.topMarginLines ]

RejectedPixelsUnchecked(c) ==
    \/ renderer = NullRenderer
    \/ c.buffer = "null"
    \/ c.pageIndex < 0
    \/ c.pageIndex >= QURAN_PAGE_COUNT

Rejected(c) ==
    \/ renderer = NullRenderer
    \/ c.buffer # "ok"
    \/ c.pageIndex < 0
    \/ c.pageIndex >= QURAN_PAGE_COUNT

\* what the caller passed, as far as the guards of the entry point look at it
\* and whether the call before it on the handle was a text call
CallOf(c) ==
    [ buffer |-> c.buffer, pageIndex |-> c.pageIndex,
      tajweed |-> IF c.config = NullConfig THEN TRUE ELSE c.config.tajweed,
      after |-> IF ret \in {"measured", "text_drawn"} THEN ret ELSE "page" ]

\* lines 840-841: both early returns
DrawPageRejected(Calls) ==
    /\ pc = "idle"
    /\ \E c \in Calls :
          /\ Rejected(c)
          /\ call' = CallOf(c)
    /\ ret' = "noop"
    /\ UNCHANGED <<renderer, pc, args, geo, lineIndex, shaped, line, drawnDescent>>
    /\ UNCHANGED <<pixels, lookup, threads>>
    /\ UNCHANGED later

DrawPageBegin(Calls) ==
    /\ pc = "idle"
    /\ \E c \in Calls :
          /\ ~Rejected(c)
          /\ c.pageIndex \in DOMAIN renderer.pages
          /\ LET a == CallArgs(c) IN
                /\ renderer' = [renderer EXCEPT !.tajweed = a.tajweed]
                /\ args' = a
                /\ geo' = PageGeometry(a, renderer.upem)
                /\ call' = CallOf(c)
                /\ pixels' = Filled(pixels, "draw_page", c.format, ColorTypeOf(c.format),
                                    a.backgroundColor)
    /\ pc' = "lines"
    /\ lineIndex' = 0
    /\ shaped' = NoRun
    /\ line' = NoLine
    /\ drawnDescent' = 0
    /\ ret' = "drawing"
    /\ UNCHANGED <<lookup, threads>>
    /\ UNCHANGED later

(***************************************************************************)
(* What the shaping engine returns for a line: a run of glyphs, each with  *)
(* its advance, its extents in the font, the index of the lookup that      *)
(* placed it, the colour that lookup encoded in base_codepoint, and        *)
(* the one colour layer hb_font_paint_glyph reports for it (use_foreground *)
(* or a palette colour of the font).                                       *)
(***************************************************************************)
GlyphWord ==
    [ codepoint |-> 40, x_advance |-> 17800, y_bearing |-> 700, height |-> -1000,
      y_offset |-> 0, lookup_index |-> 120, base_codepoint |-> 40,
      use_foreground |-> TRUE, layer_color |-> HB_COLOR(0, 0, 0, 0) ]

GlyphTajweed ==
    [ codepoint |-> 41, x_advance |-> 8950, y_bearing |-> 600, height |-> -600,
      y_offset |-> 0, lookup_index |-> 152,
      base_codepoint |-> 41 + 256 * 200 + 65536 * 30 + 16777216 * 20,
      use_foreground |-> TRUE, layer_color |-> HB_COLOR(0, 0, 0, 0) ]

GlyphSpace ==
    [ codepoint |-> 3, x_advance |-> 150, y_bearing |-> 0, height |-> 0,
      y_offset |-> 0, lookup_index |-> 0, base_codepoint |-> 3,
      use_foreground |-> TRUE, layer_color |-> HB_COLOR(0, 0, 0, 0) ]

GlyphOrnament ==
    [ codepoint |-> 42, x_advance |-> 1000, y_bearing |-> 800, height |-> -900,
      y_offset |-> 0, lookup_index |-> 0, base_codepoint |-> 42,
      use_foreground |-> FALSE, layer_color |-> HB_COLOR(180, 90, 10, 255) ]

\* a lookup index names one of the font's lookups
ShapedRuns(Glyphs, face) ==
    UNION { [1..k -> {g \in Glyphs : g.lookup_index < face.gpos_lookup_count}] :
                k \in 1..MaxGlyphs }

(***************************************************************************)
(* measureLineExtents                                                      *)
(***************************************************************************)
RECURSIVE MaxAscentOf(_)
MaxAscentOf(run) ==
    IF run = <<>> THEN 0
    ELSE Max(Head(run).y_bearing + Head(run).y_offset, MaxAscentOf(Tail(run)))

RECURSIVE MaxDescentOf(_)
MaxDescentOf(run) ==
    IF run = <<>> THEN 0
    ELSE LET glyphBottom == Head(run).y_bearing + Head(run).height + Head(run).y_offset
         IN  Max(IF glyphBottom < 0 THEN -glyphBottom ELSE 0, MaxDescentOf(Tail(run)))

measureLineExtents(run) ==
    [ maxAscent |-> MaxAscentOf(run),
      maxDescent |-> MaxDescentOf(run),
      totalHeight |-> MaxAscentOf(run) + MaxDescentOf(run) ]

(***************************************************************************)
(* The canvas matrix, x axis only: a point p of the current coordinates    *)
(* lands on pixel tx + a * (pen + p).  translate(dx) pre-concatenates, so  *)
(* it moves pen; scale(sx) folds pen into tx and multiplies a.             *)
(***************************************************************************)
CanvasIdentity == [tx |-> RatOfInt(0), a |-> RatOfInt(1), pen |-> RatOfInt(0)]
CanvasTranslate(m, dx) == [m EXCEPT !.pen = RatAdd(m.pen, dx)]
CanvasScale(m, sx) ==
    [ tx |-> RatAdd(m.tx, RatMul(m.a, m.pen)),
      a |-> RatMul(m.a, sx),
      pen |-> RatOfInt(0) ]

(***************************************************************************)
(* hb_skia_paint_color and the call of it by hb_font_paint_glyph           *)
(***************************************************************************)
hb_skia_paint_color(use_foreground_override, foreground, use_foreground, color) ==
    IF use_foreground_override \/ use_foreground THEN foreground ELSE color

hb_font_paint_glyph(glyph, use_foreground_override, context_foreground, foreground) ==
    hb_skia_paint_color(use_foreground_override, context_foreground,
                        glyph.use_foreground,
                        IF glyph.use_foreground THEN foreground ELSE glyph.layer_color)

(***************************************************************************)
(* drawLine                                                                *)
(***************************************************************************)
RECURSIVE SumAdvance(_, _)
SumAdvance(run, textOnly) ==
    IF run = <<>> THEN 0
    ELSE (IF textOnly /\ Head(run).codepoint = spaceCodePoint
          THEN 0 ELSE Head(run).x_advance)
         + SumAdvance(Tail(run), textOnly)

NbSpaces(run) == Cardinality({i \in 1..Len(run) : run[i].codepoint = spaceCodePoint})

\* hb_buffer_set_justify is called
JustifyRequested(justify, just_type) == justify /\ just_type = "just"

\* the title-line switch forgotten
UseTajweedIgnoringTitle(tajweed, disableTajweed) == tajweed

UseTajweed(tajweed, disableTajweed) == tajweed /\ ~disableTajweed

\* the ratio taken against the text-only width
ShrinkRatioOfTextWidth(lineWidth, currentLineWidth, textWidth) ==
    RatDiv(lineWidth, RatOfInt(textWidth))

ShrinkRatio(lineWidth, currentLineWidth, textWidth) ==
    RatDiv(lineWidth, RatOfInt(currentLineWidth))

\* gap > lineWidth * 0.01 && nbSpaces > 0, inside else if (textWidth < lineWidth)
ApplySpaceWidth(lineWidth, currentLineWidth, textWidth, nbSpaces) ==
    /\ RatLess(RatOfInt(textWidth), lineWidth)
    /\ RatLess(RatMul(lineWidth, Rat(1, 100)),
               RatSub(lineWidth, RatOfInt(currentLineWidth)))
    /\ nbSpaces > 0

\* the shortfall taken against the whole advance, fillers included
SpaceWidthOfLineWidth(lineWidth, currentLineWidth, textWidth, nbSpaces) ==
    RatDiv(RatSub(lineWidth, RatOfInt(currentLineWidth)), RatOfInt(nbSpaces))

SpaceWidth(lineWidth, currentLineWidth, textWidth, nbSpaces) ==
    RatDiv(RatSub(lineWidth, RatOfInt(textWidth)), RatOfInt(nbSpaces))

\* lines 572-591: the branch taken and the locals it leaves
JustificationDecision(lineWidth, currentLineWidth, textWidth, nbSpaces, scale) ==
    IF RatLess(lineWidth, RatOfInt(currentLineWidth))
    THEN LET ratio == ShrinkRatio(lineWidth, currentLineWidth, textWidth)
         IN  [ shrunk |-> TRUE, ratio |-> ratio,
               scale |-> RatDiv(scale, ratio),
               currentLineWidth |-> RatTrunc(lineWidth),
               textWidth |-> RatTrunc(RatMul(RatOfInt(textWidth), ratio)),
               applySpaceWidth |-> FALSE, spaceWidth |-> RatOfInt(0) ]
    ELSE LET apply == ApplySpaceWidth(lineWidth, currentLineWidth, textWidth, nbSpaces)
         IN  [ shrunk |-> FALSE, ratio |-> RatOfInt(1),
               scale |-> scale,
               currentLineWidth |-> currentLineWidth,
               textWidth |-> textWidth,
               applySpaceWidth |-> apply,
               spaceWidth |-> IF apply
                              THEN SpaceWidth(lineWidth, currentLineWidth, textWidth, nbSpaces)
                              ELSE RatOfInt(0) ]

CenterPad(just_type, lineWidth, currentLineWidth) ==
    IF just_type = "center"
    THEN RatDiv(RatSub(lineWidth, RatOfInt(currentLineWidth)), RatOfInt(2))
    ELSE RatOfInt(0)

\* lines 610-614: how far the pen moves left for one glyph
GlyphTranslate(glyph, just_type, applySpaceWidth, spaceWidth) ==
    IF glyph.codepoint = spaceCodePoint /\ just_type = "just" /\ applySpaceWidth
    THEN spaceWidth
    ELSE RatOfInt(glyph.x_advance)

EmbeddedColor(base_codepoint) ==
    HB_COLOR((base_codepoint \div 256) % 256,
             (base_codepoint \div 65536) % 256,
             (base_codepoint \div 16777216) % 256,
             255)

\* lines 633-644
TakesEmbeddedColor(useTajweed, lookup_index, tajweedcolorindex) ==
    useTajweed /\ lookup_index >= tajweedcolorindex

GlyphColor(useTajweed, glyph, tajweedcolorindex, defaultTextColor) ==
    IF TakesEmbeddedColor(useTajweed, glyph.lookup_index, tajweedcolorindex)
    THEN EmbeddedColor(glyph.base_codepoint)
    ELSE defaultTextColor

\* the loop of lines 598-657, from glyph i down to glyph 1 of the run
RECURSIVE PaintRun(_, _, _, _)
PaintRun(run, i, m, d) ==
    IF i = 0 THEN [m |-> m, painted |-> <<>>]
    ELSE LET glyph == run[i]
             moved == GlyphTranslate(glyph, d.just_type, d.applySpaceWidth, d.spaceWidth)
             m1 == CanvasTranslate(m, RatNeg(moved))
             color == GlyphColor(d.useTajweed, glyph, d.tajweedcolorindex,
                                 d.defaultTextColor)
             final == hb_font_paint_glyph(glyph, d.use_foreground_override, color, color)
             rest == PaintRun(run, i - 1, m1, d)
         IN  [ m |-> rest.m,
               painted |-> << [ codepoint |-> glyph.codepoint,
                                x_advance |-> glyph.x_advance,
                                lookup_index |-> glyph.lookup_index,
                                embedded |-> EmbeddedColor(glyph.base_codepoint),
                                use_foreground |-> glyph.use_foreground,
                                layer_color |-> glyph.layer_color,
                                moved |-> moved,
                                tajweedColored |->
                                    TakesEmbeddedColor(d.useTajweed, glyph.lookup_index,
                                                       d.tajweedcolorindex),
                                foreground |-> color,
                                color |-> final ] >> \o rest.painted ]

DrawLine(lineText, run, m0, lineWidth, justify, scale, defaultTextColor, disableTajweed, r, use_foreground_override) ==
    LET useTajweed == UseTajweed(r.tajweed, disableTajweed)
        textWidth == SumAdvance(run, TRUE)
        nbSpaces == NbSpaces(run)
        currentLineWidth == SumAdvance(run, FALSE)
        dec == JustificationDecision(lineWidth, currentLineWidth, textWidth,
                                     nbSpaces, scale)
        m1 == IF dec.shrunk THEN CanvasScale(m0, dec.ratio) ELSE m0
        pad == CenterPad(lineText.just_type, lineWidth, dec.currentLineWidth)
        m2 == IF lineText.just_type = "center"
              THEN CanvasTranslate(m1, RatNeg(pad)) ELSE m1
        walk == PaintRun(run, Len(run), m2,
                         [ just_type |-> lineText.just_type,
                           applySpaceWidth |-> dec.applySpaceWidth,
                           spaceWidth |-> dec.spaceWidth,
                           useTajweed |-> useTajweed,
                           tajweedcolorindex |-> r.tajweedcolorindex,
                           defaultTextColor |-> defaultTextColor,
                           use_foreground_override |-> use_foreground_override ])
    IN  [ line_type |-> lineText.line_type,
          just_type |-> lineText.just_type,
          lineWidth |-> lineWidth,
          justifySet |-> JustifyRequested(justify, lineText.just_type),
          useTajweed |-> useTajweed,
          naturalTextWidth |-> textWidth,
          naturalWidth |-> currentLineWidth,
          nbSpaces |-> nbSpaces,
          shrunk |-> dec.shrunk,
          ratio |-> dec.ratio,
          scale |-> dec.scale,
          applySpaceWidth |-> dec.applySpaceWidth,
          spaceWidth |-> dec.spaceWidth,
          pad |-> pad,
          tx |-> m1.tx,
          a |-> m1.a,
          penStart |-> m2.pen,
          penEnd |-> walk.m.pen,
          painted |-> walk.painted ]

(***************************************************************************)
(* drawPage: one iteration of the line loop, and the return                *)
(***************************************************************************)
\* lines 768-799: the matrix handed to drawLine
LineMatrix(g, special, lineWidth, line_type) ==
    LET xxstart == RatDiv(RatSub(g.pageWidth, lineWidth), RatOfInt(2))
        placed == IF special
                  THEN CanvasTranslate(CanvasIdentity,
                          RatSub(RatOfInt(g.x_start), RatMul(xxstart, g.renderScale)))
                  ELSE CanvasTranslate(CanvasIdentity, RatOfInt(g.x_start))
        framed == IF line_type = "Sura"
                  THEN CanvasTranslate(CanvasIdentity, RatOfInt(g.x_start))
                  ELSE placed
    IN  CanvasScale(framed, g.renderScale)

\* features[0].value = useTajweed ? 1 : 0
FeatureValueAlwaysOn(useTajweed) == 1

FeatureValueKept(useTajweed) == renderer.features_value

FeatureValue(useTajweed) == IF useTajweed THEN 1 ELSE 0

\* drawLine up to hb_shape (lines 540-557): the run the shaping engine returns
ShapeLine(Glyphs) ==
    /\ pc = "lines"
    /\ shaped = NoRun
    /\ lineIndex < Len(renderer.pages[args.pageIndex])
    /\ \E run \in ShapedRuns(Glyphs, renderer.face) : shaped' = run
    /\ LET linetext == renderer.pages[args.pageIndex][lineIndex + 1]
       IN  renderer' = [renderer EXCEPT !.features_value =
                          FeatureValue(UseTajweed(renderer.tajweed,
                                                  linetext.line_type = "Sura"))]
    /\ line' = NoLine
    /\ UNCHANGED <<pc, args, geo, lineIndex, drawnDescent, ret>>
    /\ UNCHANGED <<call, pixels, lookup, threads>>
    /\ UNCHANGED later

\* the rest of drawLine (lines 559-660) and the loop increment
PaintLine ==
    /\ pc = "lines"
    /\ shaped # NoRun
    /\ LET linetext == renderer.pages[args.pageIndex][lineIndex + 1]
           key == args.pageIndex * 15 + lineIndex
           special == key \in DOMAIN renderer.lineWidths
           lineWidth == IF special
                        THEN RatMul(geo.pageWidth, renderer.lineWidths[key])
                        ELSE geo.pageWidth
           disableTajweed == linetext.line_type = "Sura"
           res == DrawLine(linetext, shaped,
                           LineMatrix(geo, special, lineWidth, linetext.line_type),
                           lineWidth, args.justify, geo.renderScale, geo.textColor,
                           disableTajweed, renderer, geo.use_foreground_override)
           descent == measureLineExtents(shaped).maxDescent
       IN  /\ line' = [ index |-> lineIndex,
                        special |-> special,
                        baseline |-> geo.y_start + lineIndex * geo.inter_line,
                        descent |-> descent,
                        drawn |-> res ]
           /\ drawnDescent' = Max(drawnDescent, descent)
    /\ lineIndex' = lineIndex + 1
    /\ shaped' = NoRun
    /\ pixels' = [pixels EXCEPT !.textType = pixels.colorType, !.textColor = geo.textColor]
    /\ UNCHANGED <<renderer, pc, args, geo, ret>>
    /\ UNCHANGED <<call, lookup, threads>>
    /\ UNCHANGED later

DrawPageReturn ==
    /\ pc = "lines"
    /\ shaped = NoRun
    /\ lineIndex = Len(renderer.pages[args.pageIndex])
    /\ pc' = "idle"
    /\ args' = NoCall
    /\ geo' = NoCall
    /\ lineIndex' = 0
    /\ shaped' = NoRun
    /\ line' = NoLine
    /\ drawnDescent' = 0
    /\ ret' = "drawn"
    /\ UNCHANGED <<renderer, call, pixels, lookup, threads>>
    /\ UNCHANGED later

(***************************************************************************)
(* The text entry points, as far as they write the pixel buffer and the    *)
(* instance.  A text is the sequence of its lines, each line the number of *)
(* its words (0: a blank line); room is the number of lines for which the  *)
(* buffer is tall enough.  The positions of the glyphs are not modelled.   *)
(***************************************************************************)
NullText == <<-1>>
AutoTextColor == <<0, 0, 0, 0>>
Transparent == <<0, 0, 0, 0>>

\* QuranTextConfig{} : every field zero, tajweed false
ZeroTextConfig == [ textColor |-> AutoTextColor, backgroundColor |-> Transparent, tajweed |-> FALSE ]

Outcome(r, px, value) == [ renderer |-> r, pixels |-> px, ret |-> value ]

\* the buffer is now the work of entry, asked for in format
Stamp(out, entry, format) ==
    IF out.ret = "text_drawn"
    THEN [ out.pixels EXCEPT !.by = entry, !.format = format ]
    ELSE out.pixels

\* isDarkBackground(bgColor) ? 0xFFFFFFFF : 0x000000FF
AutoColorFor(bgColor) ==
    IF isDarkBackground(bgColor) THEN <<255, 255, 255, 255>> ELSE <<0, 0, 0, 255>>

quran_renderer_draw_text(r, px, buffer, format, text, config) ==
    IF r = NullRenderer \/ buffer # "ok" \/ text = NullText THEN Outcome(r, px, "text_rejected")
    ELSE IF text = <<>> THEN Outcome(r, px, "text_empty")
    ELSE LET bgColor == IF config # NullConfig THEN config.backgroundColor
                        ELSE <<255, 255, 255, 255>>
             textColor == IF config # NullConfig /\ config.textColor # AutoTextColor
                          THEN config.textColor
                          ELSE AutoColorFor(bgColor)
             colorType == ColorTypeOf(format)
             useTajweed == IF config # NullConfig THEN config.tajweed ELSE TRUE
             cleared == DrawColor(px, colorType, bgColor)
         IN  Outcome([r EXCEPT !.features_value = FeatureValue(useTajweed)],
                     [cleared EXCEPT !.textType = colorType,
                                     !.textColor = HB_COLOR(textColor[1], textColor[2],
                                                            textColor[3], 255)],
                     "text_drawn")

\* quran_renderer_measure_text: shapes with the tajweed feature on
quran_renderer_measure_text(r, text) ==
    IF r = NullRenderer \/ text = NullText THEN [ renderer |-> r, ret |-> "measure_rejected" ]
    ELSE IF text = <<>> THEN [ renderer |-> r, ret |-> "measured" ]
    ELSE [ renderer |-> [r EXCEPT !.features_value = 1], ret |-> "measured" ]

\* the config the multi-line entry points hand to draw_text for each line
LineConfig(config) ==
    LET copy == IF config # NullConfig THEN config ELSE ZeroTextConfig
        bgColor == IF config # NullConfig THEN config.backgroundColor
                   ELSE <<255, 255, 255, 255>>
    IN  [ copy EXCEPT !.backgroundColor = Transparent,
                      !.textColor = IF config # NullConfig /\ config.textColor = AutoTextColor
                                    THEN AutoColorFor(bgColor)
                                    ELSE copy.textColor ]

\* draw_text once for each of the first n lines to draw; all calls have the same arguments
RECURSIVE DrawLines(_, _, _, _, _)
DrawLines(r, px, format, config, n) ==
    IF n = 0 THEN Outcome(r, px, "text_drawn")
    ELSE LET one == quran_renderer_draw_text(r, px, "ok", format, <<1>>, config)
         IN  DrawLines(one.renderer, one.pixels, format, config, n - 1)

\* lines of the text that are drawn: not blank and within the room of the buffer
LinesToDraw(text, room) == Cardinality({i \in 1..Len(text) : i <= room /\ text[i] > 0})

RECURSIVE Words(_)
Words(text) == IF text = <<>> THEN 0 ELSE Head(text) + Words(Tail(text))

\* the canvas of the background is made with kRGBA_8888_SkColorType (1241);
\* the line buffers are copies of the caller's, format included
quran_renderer_draw_multiline_text(r, px, buffer, format, text, room, config) ==
    IF r = NullRenderer \/ buffer # "ok" \/ text = NullText THEN Outcome(r, px, "text_rejected")
    ELSE IF text = <<>> THEN Outcome(r, px, "text_empty")
    ELSE LET bgColor == IF config # NullConfig THEN config.backgroundColor
                        ELSE <<255, 255, 255, 255>>
             cleared == DrawColor(px, "kRGBA_8888_SkColorType", bgColor)
         IN  DrawLines(r, cleared, format, LineConfig(config), LinesToDraw(text, room))

\* lineFormat is the format field of the line buffer, which the entry point
\* never assigns; wrapped is the number of lines the words were wrapped into
quran_renderer_draw_wrapped_text(r, px, buffer, text, room, config, lineFormat, wrapped) ==
    IF r = NullRenderer \/ buffer # "ok" \/ text = NullText THEN Outcome(r, px, "text_rejected")
    ELSE IF text = <<>> THEN Outcome(r, px, "text_empty")
    ELSE LET bgColor == IF config # NullConfig THEN config.backgroundColor
                        ELSE <<255, 255, 255, 255>>
             cleared == DrawColor(px, "kRGBA_8888_SkColorType", bgColor)
             measured == quran_renderer_measure_text(r, <<2>>)
         IN  DrawLines(measured.renderer, cleared, lineFormat, LineConfig(config),
                       Min(room, IF Words(text) = 0 THEN 0 ELSE wrapped))

TextCall(buffer, format, text, room, config) ==
    [ buffer |-> buffer, format |-> format, text |-> text, room |-> room, config |-> config ]

DrawText(Calls) ==
    /\ pc = "idle"
    /\ \E c \in Calls :
          LET out == quran_renderer_draw_text(renderer, pixels, c.buffer, c.format,
                                              c.text, c.config)
          IN  /\ renderer' = out.renderer
              /\ pixels' = Stamp(out, "draw_text", c.format)
              /\ ret' = out.ret
    /\ UNCHANGED <<pc, args, geo, lineIndex, shaped, line, drawnDescent>>
    /\ UNCHANGED <<call, lookup, threads>>
    /\ UNCHANGED later

MeasureText(Calls) ==
    /\ pc = "idle"
    /\ \E c \in Calls :
          LET out == quran_renderer_measure_text(renderer, c.text)
          IN  /\ renderer' = out.renderer
              /\ ret' = out.ret
    /\ UNCHANGED <<pc, args, geo, lineIndex, shaped, line, drawnDescent>>
    /\ UNCHANGED <<call, pixels, lookup, threads>>
    /\ UNCHANGED later

DrawMultilineText(Calls) ==
    /\ pc = "idle"
    /\ \E c \in Calls :
          LET out == quran_renderer_draw_multiline_text(renderer, pixels, c.buffer, c.format,
                                                        c.text, c.room, c.config)
          IN  /\ renderer' = out.renderer
              /\ pixels' = Stamp(out, "draw_multiline_text", c.format)
              /\ ret' = out.ret
    /\ UNCHANGED <<pc, args, geo, lineIndex, shaped, line, drawnDescent>>
    /\ UNCHANGED <<call, lookup, threads>>
    /\ UNCHANGED later

DrawWrappedText(Calls) ==
    /\ pc = "idle"
    /\ \E c \in Calls, lineFormat \in PixelFormats :
          \E wrapped \in 1..Max(1, IF c.text = NullText THEN 0 ELSE Words(c.text)) :
          LET out == quran_renderer_draw_wrapped_text(renderer, pixels, c.buffer, c.text,
                                                      c.room, c.config, lineFormat, wrapped)
          IN  /\ renderer' = out.renderer
              /\ pixels' = Stamp(out, "draw_wrapped_text", c.format)
              /\ ret' = out.ret
    /\ UNCHANGED <<pc, args, geo, lineIndex, shaped, line, drawnDescent>>
    /\ UNCHANGED <<call, lookup, threads>>
    /\ UNCHANGED later

(***************************************************************************)
(* The multi-line entry points statement by statement.  A text is its      *)
(* sequence of bytes.  What hb_shape measures for a word is an input of    *)
(* each measure_text call.  Buffer widths are multiples of 20, for which   *)
(* the float products of the margins are whole numbers.                    *)
(***************************************************************************)
\* bytes of the texts
ByteSpace == 32
ByteTab == 9
ByteNewline == 10

\* number of bytes of the UTF-8 character that starts with byte c (1325-1328)
CharBytes(c) ==
    IF c \div 8 = 30 THEN 4
    ELSE IF c \div 16 = 14 THEN 3
    ELSE IF c \div 32 = 6 THEN 2
    ELSE 1

RECURSIVE SplitFrom(_, _, _, _)
SplitFrom(text, i, current, words) ==
    IF i > Len(text)
    THEN IF current # <<>> THEN Append(words, current) ELSE words
    ELSE IF text[i] = ByteSpace \/ text[i] = ByteTab
         THEN SplitFrom(text, i + 1, <<>>,
                        IF current # <<>> THEN Append(words, current) ELSE words)
         ELSE SplitFrom(text, i + CharBytes(text[i]),
                        current \o SubSeq(text, i, Min(i + CharBytes(text[i]) - 1, Len(text))),
                        words)

splitIntoWords(text) == SplitFrom(text, 1, <<>>, <<>>)

\* std::getline until the stream is exhausted: a trailing newline ends the last line
RECURSIVE GetLinesFrom(_, _, _, _)
GetLinesFrom(text, i, current, lines) ==
    IF i > Len(text)
    THEN IF current # <<>> THEN Append(lines, current) ELSE lines
    ELSE IF text[i] = ByteNewline
         THEN GetLinesFrom(text, i + 1, <<>>, Append(lines, current))
         ELSE GetLinesFrom(text, i + 1, Append(current, text[i]), lines)

GetLines(text) == GetLinesFrom(text, 1, <<>>, <<>>)

\* std::max(10.0f, buffer->width * 0.05f)
WrapAutoMargin(width) == Max(10, width \div 20)

\* static_cast<int>(std::max(10.0f, width / 42.5f))
MultilineTopMargin(width) == Max(10, (2 * width) \div 85)

WrapMargin(config, width) ==
    IF config # NullConfig /\ config.margin >= 0 THEN config.margin ELSE WrapAutoMargin(width)

\* maxLineWidth of draw_wrapped_text (1379-1395)
WrapMaxLineWidth(config, width) ==
    LET asked == IF config # NullConfig THEN config.lineWidth ELSE 0
        availableWidth == width - 2 * WrapMargin(config, width)
        fitted == IF asked <= 0 THEN availableWidth
                  ELSE IF asked > availableWidth THEN availableWidth ELSE asked
    IN  IF fitted <= 0 THEN (9 * width) \div 10 ELSE fitted

WrapFontSize(config) ==
    IF config # NullConfig /\ config.fontSize > 0 THEN config.fontSize ELSE 48

\* (width / 17.0f) * 0.9f truncated, at least 12
MultilineFontSize(config, width) ==
    IF config # NullConfig /\ config.fontSize > 0 THEN config.fontSize
    ELSE Max(12, (9 * width) \div 170)

\* withSpace - withoutSpace, or fontSize / 4 when that is not positive
SpaceWidthOf(measuredSpace, fontSize) ==
    IF measuredSpace <= 0 THEN fontSize \div 4 ELSE measuredSpace

\* the word is put on the current line although the line gets wider than maxLineWidth
FitsIgnoringSpace(currentLineWidth, spaceWidth, wordWidth, maxLineWidth) ==
    currentLineWidth + wordWidth <= maxLineWidth

\* newWidth <= maxLineWidth
Fits(currentLineWidth, spaceWidth, wordWidth, maxLineWidth) ==
    currentLineWidth + spaceWidth + wordWidth <= maxLineWidth

\* the finished line is not kept when the next word starts a new one
PushedDropped(lines, currentLine) == lines

\* lines.push_back(currentLine)
Pushed(lines, currentLine) == Append(lines, currentLine)

\* the locals of a multi-line call
TextLocals(entry, c) ==
    [ at |-> "done", entry |-> entry, call |-> c, rejected |-> FALSE,
      words |-> <<>>, widths |-> <<>>,
      i |-> 1, lines |-> <<>>, currentLine |-> <<>>, currentLineWidth |-> 0,
      spaceWidth |-> 0, maxLineWidth |-> 0, fontSize |-> 0, lineConfig |-> NullConfig,
      lineHeight |-> 0, yOffset |-> 0, drawn |-> <<>>, returned |-> 0 ]

TextRejected(c) == renderer = NullRenderer \/ c.buffer # "ok" \/ c.text = NullText

\* guards, margins, background, splitIntoWords, the two measurements of the space
WrapBegin(Calls, SpaceMeasures) ==
    /\ pc = "idle"
    /\ wrap.at = "none"
    /\ \E c \in Calls, measuredSpace \in SpaceMeasures :
          IF TextRejected(c)
          THEN /\ wrap' = [TextLocals("draw_wrapped_text", c) EXCEPT !.rejected = TRUE,
                                                        !.returned = -1]
               /\ ret' = "text_rejected"
               /\ UNCHANGED <<renderer, pixels>>
          ELSE IF c.text = <<>>
          THEN /\ wrap' = TextLocals("draw_wrapped_text", c)
               /\ ret' = "text_empty"
               /\ UNCHANGED <<renderer, pixels>>
          ELSE LET bgColor == IF c.config # NullConfig THEN c.config.backgroundColor
                              ELSE <<255, 255, 255, 255>>
                   fontSize == WrapFontSize(c.config)
               IN  /\ pixels' = Filled(pixels, "draw_wrapped_text", c.format,
                                       "kRGBA_8888_SkColorType", bgColor)
                   /\ renderer' = quran_renderer_measure_text(renderer, <<216, 167>>).renderer
                   /\ wrap' = [TextLocals("draw_wrapped_text", c) EXCEPT
                                  !.at = "words",
                                  !.words = splitIntoWords(c.text),
                                  !.fontSize = fontSize,
                                  !.spaceWidth = SpaceWidthOf(measuredSpace, fontSize),
                                  !.maxLineWidth = WrapMaxLineWidth(c.config, c.width)]
                   /\ ret' = "wrapping"
    /\ UNCHANGED <<pc, args, geo, lineIndex, shaped, line, drawnDescent>>
    /\ UNCHANGED <<call, lookup, threads, plan, kotlin, funcs, paint>>

\* one iteration of the loop over the words (1433-1463)
WrapWord(WordWidths) ==
    /\ wrap.at = "words"
    /\ wrap.i <= Len(wrap.words)
    /\ \E wordWidth \in WordWidths :
          LET word == wrap.words[wrap.i]
              measured == quran_renderer_measure_text(renderer, word)
              locals == [wrap EXCEPT !.i = wrap.i + 1, !.widths = Append(wrap.widths, wordWidth)]
          IN  /\ renderer' = measured.renderer
              /\ wrap' = IF wrap.currentLine = <<>>
                         THEN [locals EXCEPT !.currentLine = word,
                                             !.currentLineWidth = wordWidth]
                         ELSE IF Fits(wrap.currentLineWidth, wrap.spaceWidth, wordWidth,
                                      wrap.maxLineWidth)
                         THEN [locals EXCEPT
                                  !.currentLine = wrap.currentLine \o <<ByteSpace>> \o word,
                                  !.currentLineWidth = wrap.currentLineWidth + wrap.spaceWidth
                                                       + wordWidth]
                         ELSE [locals EXCEPT
                                  !.lines = Pushed(wrap.lines, wrap.currentLine),
                                  !.currentLine = word,
                                  !.currentLineWidth = wordWidth]
    /\ UNCHANGED <<pc, args, geo, lineIndex, shaped, line, drawnDescent, ret>>
    /\ UNCHANGED <<call, pixels, lookup, threads, plan, kotlin, funcs, paint>>

\* the last line, the config of the lines, the line height and the top margin (1465-1488)
WrapLinesBuilt ==
    /\ wrap.at = "words"
    /\ wrap.i > Len(wrap.words)
    /\ wrap' = [wrap EXCEPT
                   !.at = "lines",
                   !.i = 1,
                   !.lines = IF wrap.currentLine # <<>>
                             THEN Append(wrap.lines, wrap.currentLine)
                             ELSE wrap.lines,
                   !.lineConfig = LineConfig(wrap.call.config),
                   !.lineHeight = (3 * ((6 * wrap.fontSize) \div 5)) \div 2,
                   !.yOffset = WrapMargin(wrap.call.config, wrap.call.width)]
    /\ UNCHANGED <<renderer, pc, args, geo, lineIndex, shaped, line, drawnDescent, ret>>
    /\ UNCHANGED <<call, pixels, lookup, threads, plan, kotlin, funcs, paint>>

\* one iteration of the loop over the lines (1490-1515); lineFormat is the
\* format field of lineBuffer, which is not assigned
WrapDrawLine ==
    /\ wrap.at = "lines"
    /\ wrap.entry = "draw_wrapped_text"
    /\ wrap.i <= Len(wrap.lines)
    /\ wrap.call.height - wrap.yOffset >= 2 * wrap.fontSize
    /\ \E lineFormat \in PixelFormats :
          LET out == quran_renderer_draw_text(renderer, pixels, "ok", lineFormat,
                                              wrap.lines[wrap.i], wrap.lineConfig)
          IN  /\ renderer' = out.renderer
              /\ pixels' = out.pixels
    /\ wrap' = [wrap EXCEPT !.i = wrap.i + 1,
                            !.yOffset = wrap.yOffset + wrap.lineHeight,
                            !.drawn = Append(wrap.drawn, wrap.lines[wrap.i])]
    /\ UNCHANGED <<pc, args, geo, lineIndex, shaped, line, drawnDescent, ret>>
    /\ UNCHANGED <<call, lookup, threads, plan, kotlin, funcs, paint>>

\* return static_cast<int>(lines.size()), after the last line or the break
WrapReturn ==
    /\ wrap.at = "lines"
    /\ wrap.entry = "draw_wrapped_text"
    /\ \/ wrap.i > Len(wrap.lines)
       \/ wrap.call.height - wrap.yOffset < 2 * wrap.fontSize
    /\ wrap' = [wrap EXCEPT !.at = "done", !.returned = Len(wrap.lines)]
    /\ ret' = "text_drawn"
    /\ UNCHANGED <<renderer, pc, args, geo, lineIndex, shaped, line, drawnDescent>>
    /\ UNCHANGED <<call, pixels, lookup, threads, plan, kotlin, funcs, paint>>

\* a draw_text call of its own for one line of text
DrawTextCall(Calls) ==
    /\ pc = "idle"
    /\ wrap.at = "none"
    /\ \E c \in Calls :
          LET out == quran_renderer_draw_text(renderer, pixels, c.buffer, c.format,
                                              c.text, c.config)
          IN  /\ renderer' = out.renderer
              /\ pixels' = Stamp(out, "draw_text", c.format)
              /\ ret' = out.ret
              /\ wrap' = [TextLocals("draw_text", c) EXCEPT
                             !.rejected = (out.ret = "text_rejected"),
                             !.returned = IF out.ret = "text_rejected" THEN -1 ELSE 0,
                             !.drawn = IF out.ret = "text_drawn" THEN <<c.text>> ELSE <<>>]
    /\ UNCHANGED <<pc, args, geo, lineIndex, shaped, line, drawnDescent>>
    /\ UNCHANGED <<call, lookup, threads, plan, kotlin, funcs, paint>>

\* guards, font size, background, std::getline, the config of the lines (1215-1284)
MultilineBegin(Calls) ==
    /\ pc = "idle"
    /\ wrap.at = "none"
    /\ \E c \in Calls :
          IF TextRejected(c)
          THEN /\ wrap' = [TextLocals("draw_multiline_text", c) EXCEPT !.rejected = TRUE,
                                                          !.returned = -1]
               /\ ret' = "text_rejected"
               /\ UNCHANGED pixels
          ELSE IF c.text = <<>>
          THEN /\ wrap' = TextLocals("draw_multiline_text", c)
               /\ ret' = "text_empty"
               /\ UNCHANGED pixels
          ELSE LET bgColor == IF c.config # NullConfig THEN c.config.backgroundColor
                              ELSE <<255, 255, 255, 255>>
                   fontSize == MultilineFontSize(c.config, c.width)
               IN  /\ pixels' = Filled(pixels, "draw_multiline_text", c.format,
                                       "kRGBA_8888_SkColorType", bgColor)
                   /\ wrap' = [TextLocals("draw_multiline_text", c) EXCEPT
                                  !.at = "lines",
                                  !.lines = GetLines(c.text),
                                  !.fontSize = fontSize,
                                  !.lineConfig = LineConfig(c.config),
                                  !.lineHeight = (3 * fontSize) \div 2,
                                  !.yOffset = MultilineTopMargin(c.width)]
                   /\ ret' = "wrapping"
    /\ UNCHANGED <<renderer, pc, args, geo, lineIndex, shaped, line, drawnDescent>>
    /\ UNCHANGED <<call, lookup, threads, plan, kotlin, funcs, paint>>

\* one iteration of the loop over the lines (1285-1303); the line buffer is a
\* copy of the caller's buffer
MultilineLine ==
    /\ wrap.at = "lines"
    /\ wrap.entry = "draw_multiline_text"
    /\ wrap.i <= Len(wrap.lines)
    /\ wrap.lines[wrap.i] = <<>> \/ Min(2 * wrap.fontSize, wrap.call.height - wrap.yOffset) > 0
    /\ IF wrap.lines[wrap.i] = <<>>
       THEN /\ wrap' = [wrap EXCEPT !.i = wrap.i + 1,
                                    !.yOffset = wrap.yOffset + wrap.lineHeight]
            /\ UNCHANGED <<renderer, pixels>>
       ELSE LET out == quran_renderer_draw_text(renderer, pixels, "ok", wrap.call.format,
                                                wrap.lines[wrap.i], wrap.lineConfig)
            IN  /\ renderer' = out.renderer
                /\ pixels' = out.pixels
                /\ wrap' = [wrap EXCEPT !.i = wrap.i + 1,
                                        !.yOffset = wrap.yOffset + wrap.lineHeight,
                                        !.drawn = Append(wrap.drawn, wrap.lines[wrap.i])]
    /\ UNCHANGED <<pc, args, geo, lineIndex, shaped, line, drawnDescent, ret>>
    /\ UNCHANGED <<call, lookup, threads, plan, kotlin, funcs, paint>>

\* return static_cast<int>(lines.size()), after the last line or the break
MultilineReturn ==
    /\ wrap.at = "lines"
    /\ wrap.entry = "draw_multiline_text"
    /\ \/ wrap.i > Len(wrap.lines)
       \/ /\ wrap.i <= Len(wrap.lines)
          /\ wrap.lines[wrap.i] # <<>>
          /\ Min(2 * wrap.fontSize, wrap.call.height - wrap.yOffset) <= 0
    /\ wrap' = [wrap EXCEPT !.at = "done", !.returned = Len(wrap.lines)]
    /\ ret' = "text_drawn"
    /\ UNCHANGED <<renderer, pc, args, geo, lineIndex, shaped, line, drawnDescent>>
    /\ UNCHANGED <<call, pixels, lookup, threads, plan, kotlin, funcs, paint>>

(***************************************************************************)
(* The Kotlin QuranRenderer singleton and the g_renderer of its JNI        *)
(* library.  Opening the font asset and quran_renderer_create succeed or   *)
(* fail; that is the input outcome of every call that reaches them.        *)
(***************************************************************************)
QuranFonts == {"MADINA_QURANIC", "MADINA", "OLD_MADINA", "INDOPAK"}
NullFont == "null"
NullHandle == "nullptr"

assetPath(font) ==
    CASE font = "MADINA_QURANIC" -> "fonts/digitalkhatt.otf"
      [] font = "MADINA" -> "fonts/madina.otf"
      [] font = "OLD_MADINA" -> "fonts/oldmadina.otf"
      [] font = "INDOPAK" -> "fonts/indopak.otf"

\* what the platform does for a nativeInit call that has no renderer yet
NativeOutcomes == {"created", "no_asset", "create_failed"}

\* Java_..._nativeInit: the g_renderer after the call, the jboolean returned
\* and the message logged
nativeInit(g_renderer, fontPath, outcome) ==
    IF g_renderer # NullHandle
    THEN [ g_renderer |-> g_renderer, returned |-> TRUE,
           log |-> "Renderer already initialized" ]
    ELSE IF outcome = "no_asset"
    THEN [ g_renderer |-> NullHandle, returned |-> FALSE, log |-> "Failed to open font asset" ]
    ELSE IF outcome = "create_failed"
    THEN [ g_renderer |-> NullHandle, returned |-> FALSE, log |-> "Failed to create renderer" ]
    ELSE [ g_renderer |-> fontPath, returned |-> TRUE,
           log |-> "Renderer initialized successfully" ]

\* Java_..._nativeDestroy
nativeDestroy(g_renderer) == NullHandle

\* if (currentFont == font) return true
SameFont(currentFont, font) == currentFont = font

KotlinCalled(k, op, font, returned, log) ==
    [ k EXCEPT !.op = op, !.font = font, !.returned = returned, !.log = log ]

\* QuranRenderer.getInstance(): the fields of a new object
GetInstance ==
    /\ kotlin.at = "none"
    /\ kotlin' = [ at |-> "object", initialized |-> FALSE, currentFont |-> NullFont,
                   g_renderer |-> NullHandle, op |-> "getInstance", font |-> NullFont,
                   returned |-> TRUE, log |-> "" ]
    /\ UNCHANGED <<renderer, pc, args, geo, lineIndex, shaped, line, drawnDescent, ret>>
    /\ UNCHANGED <<call, pixels, lookup, threads, wrap, plan, funcs, paint>>

\* initialize(assetManager, font)
InitializeFont ==
    /\ kotlin.at = "object"
    /\ \E font \in QuranFonts, outcome \in NativeOutcomes :
          IF kotlin.initialized
          THEN kotlin' = KotlinCalled(kotlin, "initialize", font, TRUE, "")
          ELSE LET native == nativeInit(kotlin.g_renderer, assetPath(font), outcome)
               IN  kotlin' = KotlinCalled(
                                 [kotlin EXCEPT !.g_renderer = native.g_renderer,
                                                !.initialized = native.returned,
                                                !.currentFont = IF native.returned THEN font
                                                                ELSE kotlin.currentFont],
                                 "initialize", font, native.returned, native.log)
    /\ UNCHANGED <<renderer, pc, args, geo, lineIndex, shaped, line, drawnDescent, ret>>
    /\ UNCHANGED <<call, pixels, lookup, threads, wrap, plan, funcs, paint>>

\* initialize(assetManager, fontPath): a custom font
InitializePath ==
    /\ kotlin.at = "object"
    /\ \E outcome \in NativeOutcomes :
          IF kotlin.initialized
          THEN kotlin' = KotlinCalled(kotlin, "initializePath", NullFont, TRUE, "")
          ELSE LET native == nativeInit(kotlin.g_renderer, "fonts/custom.otf", outcome)
               IN  kotlin' = KotlinCalled(
                                 [kotlin EXCEPT !.g_renderer = native.g_renderer,
                                                !.initialized = native.returned,
                                                !.currentFont = IF native.returned THEN NullFont
                                                                ELSE kotlin.currentFont],
                                 "initializePath", NullFont, native.returned, native.log)
    /\ UNCHANGED <<renderer, pc, args, geo, lineIndex, shaped, line, drawnDescent, ret>>
    /\ UNCHANGED <<call, pixels, lookup, threads, wrap, plan, funcs, paint>>

\* setFont(assetManager, font)
SetFont ==
    /\ kotlin.at = "object"
    /\ \E font \in QuranFonts, outcome \in NativeOutcomes :
          IF SameFont(kotlin.currentFont, font)
          THEN kotlin' = KotlinCalled(kotlin, "setFont", font, TRUE, "")
          ELSE LET destroyed == IF kotlin.initialized THEN nativeDestroy(kotlin.g_renderer)
                                ELSE kotlin.g_renderer
                   native == nativeInit(destroyed, assetPath(font), outcome)
               IN  kotlin' = KotlinCalled(
                                 [kotlin EXCEPT !.g_renderer = native.g_renderer,
                                                !.initialized = native.returned,
                                                !.currentFont = IF native.returned THEN font
                                                                ELSE kotlin.currentFont],
                                 "setFont", font, native.returned, native.log)
    /\ UNCHANGED <<renderer, pc, args, geo, lineIndex, shaped, line, drawnDescent, ret>>
    /\ UNCHANGED <<call, pixels, lookup, threads, wrap, plan, funcs, paint>>

\* destroy()
KotlinDestroy ==
    /\ kotlin.at = "object"
    /\ kotlin' = KotlinCalled(
                     IF kotlin.initialized
                     THEN [kotlin EXCEPT !.g_renderer = nativeDestroy(kotlin.g_renderer),
                                         !.initialized = FALSE,
                                         !.currentFont = NullFont]
                     ELSE kotlin,
                     "destroy", NullFont, TRUE,
                     IF kotlin.initialized THEN "Renderer destroyed" ELSE "")
    /\ UNCHANGED <<renderer, pc, args, geo, lineIndex, shaped, line, drawnDescent, ret>>
    /\ UNCHANGED <<call, pixels, lookup, threads, wrap, plan, funcs, paint>>

(***************************************************************************)
(* The measured pitch: calculateOptimalLineHeight, and the page maxima of  *)
(* calculatePageExtentsUnits taken over the same shaped lines.  Neither    *)
(* function is called by drawPage.                                         *)
(***************************************************************************)
\* static_cast<int>((width / 17.0) * 0.9 * clampedScale)
OptimalCharHeight(width, fontScale) == (9 * width * ClampedScale(fontScale)) \div 680

\* maxHeightPixels, then 2% more, each truncated
RequiredLineHeight(maxTotalHeight, scale) ==
    (RatTrunc(RatMul(RatOfInt(maxTotalHeight), scale)) * 102) \div 100

PlanLocals(c) ==
    [ at |-> "done", call |-> c, scale |-> RatOfInt(0), i |-> 1, maxTotalHeight |-> 0,
      maxAscent |-> 0, maxDescent |-> 0, lastDescent |-> 0, adjacent |-> 0,
      required |-> 0, measured |-> FALSE, result |-> 0 ]

\* calculateOptimalLineHeight up to its loop
OptimalLineHeightBegin(Calls) ==
    /\ pc = "idle"
    /\ renderer # NullRenderer
    /\ plan.at = "none"
    /\ \E c \in Calls :
          plan' = IF c.pageIndex \notin DOMAIN renderer.pages
                  THEN [PlanLocals(c) EXCEPT !.result = c.height \div 10]
                  ELSE [PlanLocals(c) EXCEPT
                           !.at = "lines",
                           !.scale = Rat(OptimalCharHeight(c.width, c.fontScale),
                                         renderer.upem)]
    /\ UNCHANGED <<renderer, pc, args, geo, lineIndex, shaped, line, drawnDescent, ret>>
    /\ UNCHANGED <<call, pixels, lookup, threads, wrap, kotlin, funcs, paint>>

\* one line measured: the loop bodies of calculateOptimalLineHeight (295-313)
\* and of calculatePageExtentsUnits (253-270)
MeasurePageLine(Glyphs) ==
    /\ plan.at = "lines"
    /\ plan.i <= Len(renderer.pages[plan.call.pageIndex])
    /\ \E run \in ShapedRuns(Glyphs, renderer.face) :
          LET extents == measureLineExtents(run)
              maxAscent == Max(plan.maxAscent, extents.maxAscent)
              maxDescent == Max(plan.maxDescent, extents.maxDescent)
          IN  plan' = [plan EXCEPT
                          !.i = plan.i + 1,
                          !.maxTotalHeight = Max(plan.maxTotalHeight, extents.totalHeight),
                          !.maxAscent = maxAscent,
                          !.maxDescent = maxDescent,
                          !.lastDescent = extents.maxDescent,
                          !.adjacent = IF plan.i = 1 THEN 0
                                       ELSE Max(plan.adjacent,
                                                plan.lastDescent + extents.maxAscent)]
    /\ UNCHANGED <<renderer, pc, args, geo, lineIndex, shaped, line, drawnDescent, ret>>
    /\ UNCHANGED <<call, pixels, lookup, threads, wrap, kotlin, funcs, paint>>

\* pixels, the 2% and the ceiling height / 15 (315-330)
OptimalLineHeightReturn ==
    /\ plan.at = "lines"
    /\ plan.i > Len(renderer.pages[plan.call.pageIndex])
    /\ LET required == RequiredLineHeight(plan.maxTotalHeight, plan.scale)
       IN  plan' = [plan EXCEPT !.at = "done",
                                !.measured = TRUE,
                                !.required = required,
                                !.result = Min(required, plan.call.height \div 15)]
    /\ UNCHANGED <<renderer, pc, args, geo, lineIndex, shaped, line, drawnDescent, ret>>
    /\ UNCHANGED <<call, pixels, lookup, threads, wrap, kotlin, funcs, paint>>

(***************************************************************************)
(* Two draw_page calls on one instance with no lock between them.  A call  *)
(* is followed through the statements that write or read the instance:     *)
(* setTajweed (843), features[0].value (552-553), hb_shape (554), the font *)
(* coordinates of an extended glyph (604-607), hb_font_paint_glyph (648)   *)
(* and the reset of the coordinates (652-655).  Each call draws one line   *)
(* of one glyph.  The reads and writes are not synchronised, so every      *)
(* order of these steps is a possible outcome.                             *)
(***************************************************************************)
Threads == {1, 2}

\* roundf(lefttatweel * 16384.f), roundf(righttatweel * 16384.f) of the glyph a call draws
Tatweels == {<<0, 0>>, <<16384, 0>>, <<0, 8192>>}

IdleThread ==
    [ pc |-> "idle", tajweed |-> TRUE, disableTajweed |-> FALSE, tatweel |-> <<0, 0>>,
      useTajweed |-> TRUE, shapedWith |-> 1, paintedWith |-> NullCoords,
      overlapped |-> FALSE ]

Extend(tatweel) == tatweel[1] # 0 \/ tatweel[2] # 0

Active(t) == threads[t].pc # "idle"

\* quran_renderer_draw_page up to setTajweed, for a call the guards let through
RaceEnter ==
    /\ renderer # NullRenderer
    /\ \E t \in Threads, tajweed \in BOOLEAN, disableTajweed \in BOOLEAN, tatweel \in Tatweels :
          /\ ~Active(t)
          /\ renderer' = [renderer EXCEPT !.tajweed = tajweed]
          /\ threads' = [u \in Threads |->
                IF u = t
                THEN [ IdleThread EXCEPT !.pc = "feature", !.tajweed = tajweed,
                                         !.disableTajweed = disableTajweed,
                                         !.tatweel = tatweel,
                                         !.overlapped = \E v \in Threads \ {t} : Active(v) ]
                ELSE [ threads[u] EXCEPT !.overlapped = @ \/ Active(u) ]]
    /\ UNCHANGED <<pc, args, geo, lineIndex, shaped, line, drawnDescent, ret>>
    /\ UNCHANGED <<call, pixels, lookup>>
    /\ UNCHANGED later

\* drawLine 552-553: useTajweed from the member tajweed, then features[0].value
RaceSetFeature ==
    /\ \E t \in Threads :
          /\ threads[t].pc = "feature"
          /\ LET useTajweed == UseTajweed(renderer.tajweed, threads[t].disableTajweed)
             IN  /\ renderer' = [renderer EXCEPT !.features_value = FeatureValue(useTajweed)]
                 /\ threads' = [threads EXCEPT ![t].pc = "shape",
                                               ![t].useTajweed = useTajweed]
    /\ UNCHANGED <<pc, args, geo, lineIndex, shaped, line, drawnDescent, ret>>
    /\ UNCHANGED <<call, pixels, lookup>>
    /\ UNCHANGED later

\* drawLine 554: hb_shape(font, buffer, features, 1) reads features[0].value
RaceShape ==
    /\ \E t \in Threads :
          /\ threads[t].pc = "shape"
          /\ threads' = [threads EXCEPT ![t].pc = "coords",
                                        ![t].shapedWith = renderer.features_value]
    /\ UNCHANGED <<renderer, pc, args, geo, lineIndex, shaped, line, drawnDescent, ret>>
    /\ UNCHANGED <<call, pixels, lookup>>
    /\ UNCHANGED later

\* drawLine 601-607: the coordinates of an extended glyph go into the shared font
RaceSetCoords ==
    /\ \E t \in Threads :
          /\ threads[t].pc = "coords"
          /\ renderer' = IF Extend(threads[t].tatweel)
                         THEN [renderer EXCEPT !.font_num_coords = 2,
                                               !.font_coords = threads[t].tatweel]
                         ELSE renderer
          /\ threads' = [threads EXCEPT ![t].pc = "paint"]
    /\ UNCHANGED <<pc, args, geo, lineIndex, shaped, line, drawnDescent, ret>>
    /\ UNCHANGED <<call, pixels, lookup>>
    /\ UNCHANGED later

\* drawLine 647-648: hb_font_paint_glyph draws with the coordinates the font holds
RacePaint ==
    /\ \E t \in Threads :
          /\ threads[t].pc = "paint"
          /\ threads' = [threads EXCEPT ![t].pc = "reset",
                                        ![t].paintedWith = renderer.font_coords]
    /\ UNCHANGED <<renderer, pc, args, geo, lineIndex, shaped, line, drawnDescent, ret>>
    /\ UNCHANGED <<call, pixels, lookup>>
    /\ UNCHANGED later

\* drawLine 652-655 and the return of the call
RaceReturn ==
    /\ \E t \in Threads :
          /\ threads[t].pc = "reset"
          /\ renderer' = IF Extend(threads[t].tatweel)
                         THEN [renderer EXCEPT !.font_num_coords = 0,
                                               !.font_coords = NullCoords]
                         ELSE renderer
          /\ threads' = [threads EXCEPT ![t].pc = "idle"]
    /\ UNCHANGED <<pc, args, geo, lineIndex, shaped, line, drawnDescent, ret>>
    /\ UNCHANGED <<call, pixels, lookup>>
    /\ UNCHANGED later

(***************************************************************************)
(* The glyph loop of drawLine (598-657) and of quran_renderer_draw_text    *)
(* (1109-1149) in one call: for each glyph, from the last to the first,    *)
(* the coordinates of an extended glyph go into the font, the glyph is     *)
(* painted, and the coordinates are taken out again.                       *)
(***************************************************************************)
GlyphLoops == {"drawLine", "draw_text"}

\* font->num_coords and font->coords after the glyph is painted, coordinates left in
CoordsLeftIn(extend, font) == font

\* if (extend) { font->num_coords = 0; font->coords = nullptr; }
CoordsAfterPaint(extend, font) ==
    IF extend THEN [font EXCEPT !.font_num_coords = 0, !.font_coords = NullCoords]
    ELSE font

\* the loop is entered with the glyphs hb_shape returned; i = count - 1
GlyphLoopBegin(Runs) ==
    /\ renderer # NullRenderer
    /\ pc = "idle"
    /\ paint.at \in {"none", "returned"}
    /\ \E entry \in GlyphLoops, run \in Runs :
          paint' = [ at |-> IF run = <<>> THEN "returned" ELSE "coords", entry |-> entry,
                     glyph_info |-> run, i |-> Len(run) - 1, painted |-> <<>>,
                     entered |-> [ num_coords |-> renderer.font_num_coords,
                                   coords |-> renderer.font_coords ] ]
    /\ UNCHANGED <<renderer, pc, args, geo, lineIndex, shaped, line, drawnDescent, ret>>
    /\ UNCHANGED <<call, pixels, lookup, threads, wrap, plan, kotlin, funcs>>

\* 601-607, 1114-1119
GlyphSetCoords ==
    /\ paint.at = "coords"
    /\ LET tatweel == paint.glyph_info[paint.i + 1]
       IN  renderer' = IF Extend(tatweel)
                       THEN [renderer EXCEPT !.font_num_coords = 2,
                                             !.font_coords = tatweel]
                       ELSE renderer
    /\ paint' = [paint EXCEPT !.at = "paint"]
    /\ UNCHANGED <<pc, args, geo, lineIndex, shaped, line, drawnDescent, ret>>
    /\ UNCHANGED <<call, pixels, lookup, threads, wrap, plan, kotlin, funcs>>

\* 647-648, 1139-1140: hb_font_paint_glyph draws with what the font holds
GlyphPaint ==
    /\ paint.at = "paint"
    /\ paint' = [paint EXCEPT
                    !.at = "reset",
                    !.painted = Append(@, [ tatweel |-> paint.glyph_info[paint.i + 1],
                                            num_coords |-> renderer.font_num_coords,
                                            coords |-> renderer.font_coords ])]
    /\ UNCHANGED <<renderer, pc, args, geo, lineIndex, shaped, line, drawnDescent, ret>>
    /\ UNCHANGED <<call, pixels, lookup, threads, wrap, plan, kotlin, funcs>>

\* 652-656, 1144-1149: the reset, i--, and the end of the loop
GlyphReset ==
    /\ paint.at = "reset"
    /\ renderer' = CoordsAfterPaint(Extend(paint.glyph_info[paint.i + 1]), renderer)
    /\ paint' = [paint EXCEPT !.at = IF paint.i = 0 THEN "returned" ELSE "coords",
                              !.i = paint.i - 1]
    /\ UNCHANGED <<pc, args, geo, lineIndex, shaped, line, drawnDescent, ret>>
    /\ UNCHANGED <<call, pixels, lookup, threads, wrap, plan, kotlin, funcs>>

(***************************************************************************)
(* The callback tables.  hb_skia_canvas.cpp keeps one hb_draw_funcs_t and  *)
(* one hb_paint_funcs_t for the process, each behind a lazy loader that    *)
(* creates the table at the first call and afterwards hands out the same   *)
(* pointer without taking a reference.  hb_draw_funcs_destroy and          *)
(* hb_paint_funcs_destroy drop one reference and free the table when none  *)
(* is left; on a table already freed they are undefined.                   *)
(***************************************************************************)
FuncsKinds == {"draw_funcs", "paint_funcs"}

NullFuncs == "nullptr"
TheTable == "table"

\* before the first renderer: no table, the loaders' instance pointers null
StaticFuncs ==
    [ at |-> "loaded",
      instance |-> [k \in FuncsKinds |-> NullFuncs],
      table |-> [k \in FuncsKinds |-> [state |-> "none", ref_count |-> 0]],
      live |-> <<>>,
      last |-> [op |-> "none"],
      outcome |-> "running" ]

LoadedFuncs == IF funcs = NoFuncs THEN StaticFuncs ELSE funcs

\* static_skia_*_funcs.get_unconst(): create() at the first call, the
\* stored pointer at every later one
get_unconst(f, k) ==
    IF f.instance[k] = NullFuncs
    THEN [f EXCEPT !.instance[k] = TheTable,
                   !.table[k] = [state |-> "alive", ref_count |-> 1]]
    ELSE f

\* hb_draw_funcs_destroy / hb_paint_funcs_destroy on a table that is alive
hb_funcs_destroy(f, k) ==
    LET t == f.table[k]
    IN  IF t.ref_count > 1
        THEN [f EXCEPT !.table[k].ref_count = t.ref_count - 1]
        ELSE [f EXCEPT !.table[k] = [state |-> "freed", ref_count |-> 0]]

\* ~QuranRendererImpl: if (draw_funcs) hb_draw_funcs_destroy(draw_funcs);
\* if (paint_funcs) hb_paint_funcs_destroy(paint_funcs); for tables alive
DestroyedFuncs(f, pointers) ==
    LET afterDraw == IF pointers["draw_funcs"] # NullFuncs
                     THEN hb_funcs_destroy(f, "draw_funcs") ELSE f
    IN  IF pointers["paint_funcs"] # NullFuncs
        THEN hb_funcs_destroy(afterDraw, "paint_funcs") ELSE afterDraw

\* a pointer of the renderer leads to a table that was freed
Dangling(f, pointers) ==
    \E k \in FuncsKinds : pointers[k] # NullFuncs /\ f.table[k].state = "freed"

\* what a use of freed memory may do
AfterUseOfFreed == {"running", "crashed"}

\* quran_renderer_create with initialize succeeding
RendererCreate(Ids) ==
    /\ LoadedFuncs.outcome = "running"
    /\ \E id \in Ids \ DOMAIN LoadedFuncs.live :
          LET f == get_unconst(get_unconst(LoadedFuncs, "draw_funcs"), "paint_funcs")
          IN  funcs' = [f EXCEPT !.live = (id :> f.instance) @@ f.live,
                                 !.last = [op |-> "create", id |-> id]]
    /\ UNCHANGED <<renderer, pc, args, geo, lineIndex, shaped, line, drawnDescent, ret>>
    /\ UNCHANGED <<call, pixels, lookup, threads, wrap, plan, kotlin, paint>>

\* quran_renderer_create with initialize returning false at the blob or the
\* face: draw_funcs and paint_funcs are still null when the object is deleted
RendererCreateFails(Ids) ==
    /\ LoadedFuncs.outcome = "running"
    /\ \E id \in Ids \ DOMAIN LoadedFuncs.live :
          funcs' = [DestroyedFuncs(LoadedFuncs, [k \in FuncsKinds |-> NullFuncs])
                       EXCEPT !.last = [op |-> "create_failed", id |-> id]]
    /\ UNCHANGED <<renderer, pc, args, geo, lineIndex, shaped, line, drawnDescent, ret>>
    /\ UNCHANGED <<call, pixels, lookup, threads, wrap, plan, kotlin, paint>>

\* a draw call of a live renderer: hb_font_paint_glyph(font, glyph, paint_funcs, ...)
RendererPaints ==
    /\ LoadedFuncs.outcome = "running"
    /\ \E id \in DOMAIN LoadedFuncs.live, outcome \in AfterUseOfFreed :
          /\ outcome = "crashed" => Dangling(LoadedFuncs, LoadedFuncs.live[id])
          /\ funcs' = [LoadedFuncs EXCEPT
                          !.last = [op |-> "paint", id |-> id,
                                    through |-> LoadedFuncs.table["paint_funcs"].state],
                          !.outcome = outcome]
    /\ UNCHANGED <<renderer, pc, args, geo, lineIndex, shaped, line, drawnDescent, ret>>
    /\ UNCHANGED <<call, pixels, lookup, threads, wrap, plan, kotlin, paint>>

\* quran_renderer_destroy: delete renderer
RendererDestroy ==
    /\ LoadedFuncs.outcome = "running"
    /\ \E id \in DOMAIN LoadedFuncs.live, outcome \in AfterUseOfFreed :
          LET f == LoadedFuncs
              pointers == f.live[id]
              others == [i \in DOMAIN f.live \ {id} |-> f.live[i]]
          IN  IF Dangling(f, pointers)
              THEN funcs' = [f EXCEPT !.live = others,
                                      !.last = [op |-> "destroy", id |-> id],
                                      !.outcome = outcome]
              ELSE /\ outcome = "running"
                   /\ funcs' = [DestroyedFuncs(f, pointers) EXCEPT
                                   !.live = others,
                                   !.last = [op |-> "destroy", id |-> id]]
    /\ UNCHANGED <<renderer, pc, args, geo, lineIndex, shaped, line, drawnDescent, ret>>
    /\ UNCHANGED <<call, pixels, lookup, threads, wrap, plan, kotlin, paint>>

(***************************************************************************)
(* quran_metadata.h: SURAH_DATA[1..114] (index 0 of the C array is the      *)
(* unused placeholder; the Arabic and English names, which no lookup       *)
(* inspects, are left out) and PAGE_LOCATIONS, whose C index i is i + 1     *)
(* here.                                                                   *)
(***************************************************************************)
QURAN_SURAH_COUNT == 114

Surah(number, ayahCount, startAyah, type, revelationOrder, rukuCount) ==
    [ number |-> number, ayahCount |-> ayahCount, startAyah |-> startAyah,
      type |-> type, revelationOrder |-> revelationOrder, rukuCount |-> rukuCount ]

SURAH_DATA ==
    << Surah(1, 7, 0, "Meccan", 5, 1), Surah(2, 286, 7, "Medinan", 87, 40),
       Surah(3, 200, 293, "Medinan", 89, 20), Surah(4, 176, 493, "Medinan", 92, 24),
       Surah(5, 120, 669, "Medinan", 112, 16), Surah(6, 165, 789, "Meccan", 55, 20),
       Surah(7, 206, 954, "Meccan", 39, 24), Surah(8, 75, 1160, "Medinan", 88, 10),
       Surah(9, 129, 1235, "Medinan", 113, 16), Surah(10, 109, 1364, "Meccan", 51, 11),
       Surah(11, 123, 1473, "Meccan", 52, 10), Surah(12, 111, 1596, "Meccan", 53, 12),
       Surah(13, 43, 1707, "Medinan", 96, 6), Surah(14, 52, 1750, "Meccan", 72, 7),
       Surah(15, 99, 1802, "Meccan", 54, 6), Surah(16, 128, 1901, "Meccan", 70, 16),
       Surah(17, 111, 2029, "Meccan", 50, 12), Surah(18, 110, 2140, "Meccan", 69, 12),
       Surah(19, 98, 2250, "Meccan", 44, 6), Surah(20, 135, 2348, "Meccan", 45, 8),
       Surah(21, 112, 2483, "Meccan", 73, 7), Surah(22, 78, 2595, "Medinan", 103, 10),
       Surah(23, 118, 2673, "Meccan", 74, 6), Surah(24, 64, 2791, "Medinan", 102, 9),
       Surah(25, 77, 2855, "Meccan", 42, 6), Surah(26, 227, 2932, "Meccan", 47, 11),
       Surah(27, 93, 3159, "Meccan", 48, 7), Surah(28, 88, 3252, "Meccan", 49, 8),
       Surah(29, 69, 3340, "Meccan", 85, 7), Surah(30, 60, 3409, "Meccan", 84, 6),
       Surah(31, 34, 3469, "Meccan", 57, 3), Surah(32, 30, 3503, "Meccan", 75, 3),
       Surah(33, 73, 3533, "Medinan", 90, 9), Surah(34, 54, 3606, "Meccan", 58, 6),
       Surah(35, 45, 3660, "Meccan", 43, 5), Surah(36, 83, 3705, "Meccan", 41, 5),
       Surah(37, 182, 3788, "Meccan", 56, 5), Surah(38, 88, 3970, "Meccan", 38, 5),
       Surah(39, 75, 4058, "Meccan", 59, 8), Surah(40, 85, 4133, "Meccan", 60, 9),
       Surah(41, 54, 4218, "Meccan", 61, 6), Surah(42, 53, 4272, "Meccan", 62, 5),
       Surah(43, 89, 4325, "Meccan", 63, 7), Surah(44, 59, 4414, "Meccan", 64, 3),
       Surah(45, 37, 4473, "Meccan", 65, 4), Surah(46, 35, 4510, "Meccan", 66, 4),
       Surah(47, 38, 4545, "Medinan", 95, 4), Surah(48, 29, 4583, "Medinan", 111, 4),
       Surah(49, 18, 4612, "Medinan", 106, 2), Surah(50, 45, 4630, "Meccan", 34, 3),
       Surah(51, 60, 4675, "Meccan", 67, 3), Surah(52, 49, 4735, "Meccan", 76, 2),
       Surah(53, 62, 4784, "Meccan", 23, 3), Surah(54, 55, 4846, "Meccan", 37, 3),
       Surah(55, 78, 4901, "Medinan", 97, 3), Surah(56, 96, 4979, "Meccan", 46, 3),
       Surah(57, 29, 5075, "Medinan", 94, 4), Surah(58, 22, 5104, "Medinan", 105, 3),
       Surah(59, 24, 5126, "Medinan", 101, 3), Surah(60, 13, 5150, "Medinan", 91, 2),
       Surah(61, 14, 5163, "Medinan", 109, 2), Surah(62, 11, 5177, "Medinan", 110, 2),
       Surah(63, 11, 5188, "Medinan", 104, 2), Surah(64, 18, 5199, "Medinan", 108, 2),
       Surah(65, 12, 5217, "Medinan", 99, 2), Surah(66, 12, 5229, "Medinan", 107, 2),
       Surah(67, 30, 5241, "Meccan", 77, 2), Surah(68, 52, 5271, "Meccan", 2, 2),
       Surah(69, 52, 5323, "Meccan", 78, 2), Surah(70, 44, 5375, "Meccan", 79, 2),
       Surah(71, 28, 5419, "Meccan", 71, 2), Surah(72, 28, 5447, "Meccan", 40, 2),
       Surah(73, 20, 5475, "Meccan", 3, 2), Surah(74, 56, 5495, "Meccan", 4, 2),
       Surah(75, 40, 5551, "Meccan", 31, 2), Surah(76, 31, 5591, "Medinan", 98, 2),
       Surah(77, 50, 5622, "Meccan", 33, 2), Surah(78, 40, 5672, "Meccan", 80, 2),
       Surah(79, 46, 5712, "Meccan", 81, 2), Surah(80, 42, 5758, "Meccan", 24, 1),
       Surah(81, 29, 5800, "Meccan", 7, 1), Surah(82, 19, 5829, "Meccan", 82, 1),
       Surah(83, 36, 5848, "Meccan", 86, 1), Surah(84, 25, 5884, "Meccan", 83, 1),
       Surah(85, 22, 5909, "Meccan", 27, 1), Surah(86, 17, 5931, "Meccan", 36, 1),
       Surah(87, 19, 5948, "Meccan", 8, 1), Surah(88, 26, 5967, "Meccan", 68, 1),
       Surah(89, 30, 5993, "Meccan", 10, 1), Surah(90, 20, 6023, "Meccan", 35, 1),
       Surah(91, 15, 6043, "Meccan", 26, 1), Surah(92, 21, 6058, "Meccan", 9, 1),
       Surah(93, 11, 6079, "Meccan", 11, 1), Surah(94, 8, 6090, "Meccan", 12, 1),
       Surah(95, 8, 6098, "Meccan", 28, 1), Surah(96, 19, 6106, "Meccan", 1, 1),
       Surah(97, 5, 6125, "Meccan", 25, 1), Surah(98, 8, 6130, "Medinan", 100, 1),
       Surah(99, 8, 6138, "Medinan", 93, 1), Surah(100, 11, 6146, "Meccan", 14, 1),
       Surah(101, 11, 6157, "Meccan", 30, 1), Surah(102, 8, 6168, "Meccan", 16, 1),
       Surah(103, 3, 6176, "Meccan", 13, 1), Surah(104, 9, 6179, "Meccan", 32, 1),
       Surah(105, 5, 6188, "Meccan", 19, 1), Surah(106, 4, 6193, "Meccan", 29, 1),
       Surah(107, 7, 6197, "Meccan", 17, 1), Surah(108, 3, 6204, "Meccan", 15, 1),
       Surah(109, 6, 6207, "Meccan", 18, 1), Surah(110, 3, 6213, "Medinan", 114, 1),
       Surah(111, 5, 6216, "Meccan", 6, 1), Surah(112, 4, 6221, "Meccan", 22, 1),
       Surah(113, 5, 6225, "Meccan", 20, 1), Surah(114, 6, 6230, "Meccan", 21, 1) >>

PAGE_LOCATIONS ==
    << <<1, 1>>, <<2, 1>>, <<2, 6>>, <<2, 17>>, <<2, 25>>, <<2, 30>>, <<2, 38>>, <<2, 49>>,
       <<2, 58>>, <<2, 62>>, <<2, 70>>, <<2, 77>>, <<2, 84>>, <<2, 89>>, <<2, 94>>, <<2, 102>>,
       <<2, 106>>, <<2, 113>>, <<2, 120>>, <<2, 127>>, <<2, 135>>, <<2, 142>>, <<2, 146>>, <<2, 154>>,
       <<2, 164>>, <<2, 170>>, <<2, 177>>, <<2, 182>>, <<2, 187>>, <<2, 191>>, <<2, 197>>, <<2, 203>>,
       <<2, 211>>, <<2, 216>>, <<2, 220>>, <<2, 225>>, <<2, 231>>, <<2, 234>>, <<2, 238>>, <<2, 246>>,
       <<2, 249>>, <<2, 253>>, <<2, 257>>, <<2, 260>>, <<2, 265>>, <<2, 270>>, <<2, 275>>, <<2, 282>>,
       <<2, 283>>, <<3, 1>>, <<3, 10>>, <<3, 16>>, <<3, 23>>, <<3, 30>>, <<3, 38>>, <<3, 46>>,
       <<3, 53>>, <<3, 62>>, <<3, 71>>, <<3, 78>>, <<3, 84>>, <<3, 92>>, <<3, 101>>, <<3, 109>>,
       <<3, 116>>, <<3, 122>>, <<3, 133>>, <<3, 141>>, <<3, 149>>, <<3, 154>>, <<3, 158>>, <<3, 166>>,
       <<3, 174>>, <<3, 181>>, <<3, 187>>, <<3, 195>>, <<4, 1>>, <<4, 7>>, <<4, 12>>, <<4, 15>>,
       <<4, 20>>, <<4, 24>>, <<4, 27>>, <<4, 34>>, <<4, 38>>, <<4, 45>>, <<4, 52>>, <<4, 60>>,
       <<4, 66>>, <<4, 75>>, <<4, 80>>, <<4, 87>>, <<4, 92>>, <<4, 95>>, <<4, 102>>, <<4, 106>>,
       <<4, 114>>, <<4, 122>>, <<4, 128>>, <<4, 135>>, <<4, 141>>, <<4, 148>>, <<4, 155>>, <<4, 163>>,
       <<4, 171>>, <<4, 176>>, <<5, 3>>, <<5, 6>>, <<5, 10>>, <<5, 14>>, <<5, 18>>, <<5, 24>>,
       <<5, 32>>, <<5, 37>>, <<5, 42>>, <<5, 46>>, <<5, 51>>, <<5, 58>>, <<5, 65>>, <<5, 71>>,
       <<5, 77>>, <<5, 83>>, <<5, 90>>, <<5, 96>>, <<5, 104>>, <<5, 109>>, <<5, 114>>, <<6, 1>>,
       <<6, 9>>, <<6, 19>>, <<6, 28>>, <<6, 36>>, <<6, 45>>, <<6, 53>>, <<6, 60>>, <<6, 69>>,
       <<6, 74>>, <<6, 82>>, <<6, 91>>, <<6, 95>>, <<6, 102>>, <<6, 111>>, <<6, 119>>, <<6, 125>>,
       <<6, 132>>, <<6, 138>>, <<6, 143>>, <<6, 147>>, <<6, 152>>, <<6, 158>>, <<7, 1>>, <<7, 12>>,
       <<7, 23>>, <<7, 31>>, <<7, 38>>, <<7, 44>>, <<7, 52>>, <<7, 58>>, <<7, 68>>, <<7, 74>>,
       <<7, 82>>, <<7, 88>>, <<7, 96>>, <<7, 105>>, <<7, 121>>, <<7, 131>>, <<7, 138>>, <<7, 144>>,
       <<7, 150>>, <<7, 156>>, <<7, 160>>, <<7, 164>>, <<7, 171>>, <<7, 179>>, <<7, 188>>, <<7, 196>>,
       <<8, 1>>, <<8, 9>>, <<8, 17>>, <<8, 26>>, <<8, 34>>, <<8, 41>>, <<8, 46>>, <<8, 53>>,
       <<8, 62>>, <<8, 70>>, <<9, 1>>, <<9, 7>>, <<9, 14>>, <<9, 21>>, <<9, 27>>, <<9, 32>>,
       <<9, 37>>, <<9, 41>>, <<9, 48>>, <<9, 55>>, <<9, 62>>, <<9, 69>>, <<9, 73>>, <<9, 80>>,
       <<9, 87>>, <<9, 94>>, <<9, 100>>, <<9, 107>>, <<9, 112>>, <<9, 118>>, <<9, 123>>, <<10, 1>>,
       <<10, 7>>, <<10, 15>>, <<10, 21>>, <<10, 26>>, <<10, 34>>, <<10, 43>>, <<10, 54>>, <<10, 62>>,
       <<10, 71>>, <<10, 79>>, <<10, 89>>, <<10, 98>>, <<10, 107>>, <<11, 6>>, <<11, 13>>, <<11, 20>>,
       <<11, 29>>, <<11, 38>>, <<11, 46>>, <<11, 54>>, <<11, 63>>, <<11, 72>>, <<11, 82>>, <<11, 89>>,
       <<11, 98>>, <<11, 109>>, <<11, 118>>, <<12, 5>>, <<12, 15>>, <<12, 23>>, <<12, 31>>, <<12, 38>>,
       <<12, 44>>, <<12, 53>>, <<12, 64>>, <<12, 70>>, <<12, 79>>, <<12, 87>>, <<12, 96>>, <<12, 104>>,
       <<13, 1>>, <<13, 6>>, <<13, 14>>, <<13, 19>>, <<13, 29>>, <<13, 35>>, <<13, 43>>, <<14, 6>>,
       <<14, 11>>, <<14, 19>>, <<14, 25>>, <<14, 34>>, <<14, 43>>, <<15, 1>>, <<15, 16>>, <<15, 32>>,
       <<15, 52>>, <<15, 71>>, <<15, 91>>, <<16, 7>>, <<16, 15>>, <<16, 27>>, <<16, 35>>, <<16, 43>>,
       <<16, 55>>, <<16, 65>>, <<16, 73>>, <<16, 80>>, <<16, 88>>, <<16, 94>>, <<16, 103>>, <<16, 111>>,
       <<16, 119>>, <<17, 1>>, <<17, 8>>, <<17, 18>>, <<17, 28>>, <<17, 39>>, <<17, 50>>, <<17, 59>>,
       <<17, 67>>, <<17, 76>>, <<17, 87>>, <<17, 97>>, <<17, 105>>, <<18, 5>>, <<18, 16>>, <<18, 21>>,
       <<18, 28>>, <<18, 35>>, <<18, 46>>, <<18, 54>>, <<18, 62>>, <<18, 75>>, <<18, 84>>, <<18, 98>>,
       <<19, 1>>, <<19, 12>>, <<19, 26>>, <<19, 39>>, <<19, 52>>, <<19, 65>>, <<19, 77>>, <<19, 96>>,
       <<20, 13>>, <<20, 38>>, <<20, 52>>, <<20, 65>>, <<20, 77>>, <<20, 88>>, <<20, 99>>, <<20, 114>>,
       <<20, 126>>, <<21, 1>>, <<21, 11>>, <<21, 25>>, <<21, 36>>, <<21, 45>>, <<21, 58>>, <<21, 73>>,
       <<21, 82>>, <<21, 91>>, <<21, 102>>, <<22, 1>>, <<22, 6>>, <<22, 16>>, <<22, 24>>, <<22, 31>>,
       <<22, 39>>, <<22, 47>>, <<22, 56>>, <<22, 65>>, <<22, 73>>, <<23, 1>>, <<23, 18>>, <<23, 28>>,
       <<23, 43>>, <<23, 60>>, <<23, 75>>, <<23, 90>>, <<23, 105>>, <<24, 1>>, <<24, 11>>, <<24, 21>>,
       <<24, 28>>, <<24, 32>>, <<24, 37>>, <<24, 44>>, <<24, 54>>, <<24, 59>>, <<24, 62>>, <<25, 3>>,
       <<25, 12>>, <<25, 21>>, <<25, 33>>, <<25, 44>>, <<25, 56>>, <<25, 68>>, <<26, 1>>, <<26, 20>>,
       <<26, 40>>, <<26, 61>>, <<26, 84>>, <<26, 112>>, <<26, 137>>, <<26, 160>>, <<26, 184>>, <<26, 207>>,
       <<27, 1>>, <<27, 14>>, <<27, 23>>, <<27, 36>>, <<27, 45>>, <<27, 56>>, <<27, 64>>, <<27, 77>>,
       <<27, 89>>, <<28, 6>>, <<28, 14>>, <<28, 22>>, <<28, 29>>, <<28, 36>>, <<28, 44>>, <<28, 51>>,
       <<28, 60>>, <<28, 71>>, <<28, 78>>, <<28, 85>>, <<29, 7>>, <<29, 15>>, <<29, 24>>, <<29, 31>>,
       <<29, 39>>, <<29, 46>>, <<29, 53>>, <<29, 64>>, <<30, 6>>, <<30, 16>>, <<30, 25>>, <<30, 33>>,
       <<30, 42>>, <<30, 51>>, <<31, 1>>, <<31, 12>>, <<31, 20>>, <<31, 29>>, <<32, 1>>, <<32, 12>>,
       <<32, 21>>, <<33, 1>>, <<33, 7>>, <<33, 16>>, <<33, 23>>, <<33, 31>>, <<33, 36>>, <<33, 44>>,
       <<33, 51>>, <<33, 55>>, <<33, 63>>, <<34, 1>>, <<34, 8>>, <<34, 15>>, <<34, 23>>, <<34, 32>>,
       <<34, 40>>, <<34, 49>>, <<35, 4>>, <<35, 12>>, <<35, 19>>, <<35, 31>>, <<35, 39>>, <<35, 45>>,
       <<36, 13>>, <<36, 28>>, <<36, 41>>, <<36, 55>>, <<36, 71>>, <<37, 1>>, <<37, 25>>, <<37, 52>>,
       <<37, 77>>, <<37, 103>>, <<37, 127>>, <<37, 154>>, <<38, 1>>, <<38, 17>>, <<38, 27>>, <<38, 43>>,
       <<38, 62>>, <<38, 84>>, <<39, 6>>, <<39, 11>>, <<39, 22>>, <<39, 32>>, <<39, 41>>, <<39, 48>>,
       <<39, 57>>, <<39, 68>>, <<39, 75>>, <<40, 8>>, <<40, 17>>, <<40, 26>>, <<40, 34>>, <<40, 41>>,
       <<40, 50>>, <<40, 59>>, <<40, 67>>, <<40, 78>>, <<41, 1>>, <<41, 12>>, <<41, 21>>, <<41, 30>>,
       <<41, 39>>, <<41, 47>>, <<42, 1>>, <<42, 11>>, <<42, 16>>, <<42, 23>>, <<42, 32>>, <<42, 45>>,
       <<42, 52>>, <<43, 11>>, <<43, 23>>, <<43, 34>>, <<43, 48>>, <<43, 61>>, <<43, 74>>, <<44, 1>>,
       <<44, 19>>, <<44, 40>>, <<45, 1>>, <<45, 14>>, <<45, 23>>, <<45, 33>>, <<46, 6>>, <<46, 15>>,
       <<46, 21>>, <<46, 29>>, <<47, 1>>, <<47, 12>>, <<47, 20>>, <<47, 30>>, <<48, 1>>, <<48, 10>>,
       <<48, 16>>, <<48, 24>>, <<48, 29>>, <<49, 5>>, <<49, 12>>, <<50, 1>>, <<50, 16>>, <<50, 36>>,
       <<51, 7>>, <<51, 31>>, <<51, 52>>, <<52, 15>>, <<52, 32>>, <<53, 1>>, <<53, 27>>, <<53, 45>>,
       <<54, 7>>, <<54, 28>>, <<54, 50>>, <<55, 17>>, <<55, 41>>, <<55, 68>>, <<56, 17>>, <<56, 51>>,
       <<56, 77>>, <<57, 4>>, <<57, 12>>, <<57, 19>>, <<57, 25>>, <<58, 1>>, <<58, 7>>, <<58, 12>>,
       <<58, 22>>, <<59, 4>>, <<59, 10>>, <<59, 17>>, <<60, 1>>, <<60, 6>>, <<60, 12>>, <<61, 6>>,
       <<62, 1>>, <<62, 9>>, <<63, 5>>, <<64, 1>>, <<64, 10>>, <<65, 1>>, <<65, 6>>, <<66, 1>>,
       <<66, 8>>, <<67, 1>>, <<67, 13>>, <<67, 27>>, <<68, 16>>, <<68, 43>>, <<69, 9>>, <<69, 35>>,
       <<70, 11>>, <<70, 40>>, <<71, 11>>, <<72, 1>>, <<72, 14>>, <<73, 1>>, <<73, 20>>, <<74, 18>>,
       <<74, 48>>, <<75, 20>>, <<76, 6>>, <<76, 26>>, <<77, 20>>, <<78, 1>>, <<78, 31>>, <<79, 16>>,
       <<80, 1>>, <<81, 1>>, <<82, 1>>, <<83, 7>>, <<83, 35>>, <<85, 1>>, <<86, 1>>, <<87, 16>>,
       <<89, 1>>, <<89, 24>>, <<91, 1>>, <<92, 15>>, <<95, 1>>, <<97, 1>>, <<98, 8>>, <<100, 10>>,
       <<103, 1>>, <<106, 1>>, <<109, 1>>, <<112, 1>> >>

surahNumberOf(loc) == loc[1]
ayahNumberOf(loc) == loc[2]

\* what an output pointer refers to: nothing, or a struct the callee has not written
NullOutput == [null |-> TRUE]
Unwritten == [written |-> FALSE]

\* quran_renderer_get_surah_info: the return value and the struct behind info
quran_renderer_get_surah_info(surahNumber, info) ==
    IF surahNumber < 1 \/ surahNumber > 114 \/ info = NullOutput
    THEN [ ok |-> FALSE, output |-> info ]
    ELSE [ ok |-> TRUE, output |-> SURAH_DATA[surahNumber] ]

\* A loop over the pages is modelled by the index at which it returns: the
\* first index, in the loop's direction, at which one of its return
\* statements is reached.  The index is found by halving the range.
LoopFellThrough == -2

\* inner loop of get_surah_start_page, j from hi down to lo: the first j at
\* which it returns
RECURSIVE StartPageBackwardHit(_, _, _)
StartPageBackwardHit(surahNumber, lo, hi) ==
    IF lo > hi THEN LoopFellThrough
    ELSE IF lo = hi
    THEN IF surahNumberOf(PAGE_LOCATIONS[lo + 1]) <= surahNumber THEN lo ELSE LoopFellThrough
    ELSE LET mid == (lo + hi) \div 2
             upper == StartPageBackwardHit(surahNumber, mid + 1, hi)
         IN  IF upper # LoopFellThrough THEN upper
             ELSE StartPageBackwardHit(surahNumber, lo, mid)

\* for (int j = i - 1; j >= 0; j--) of get_surah_start_page: return j where the
\* page starts in the surah, j + 1 where it starts in an earlier one
StartPageBackward(surahNumber, i) ==
    LET j == StartPageBackwardHit(surahNumber, 0, i - 1)
    IN  IF j = LoopFellThrough THEN LoopFellThrough
        ELSE IF surahNumberOf(PAGE_LOCATIONS[j + 1]) = surahNumber THEN j
        ELSE j + 1

\* what the body of the outer loop returns at page i (LoopFellThrough: nothing)
StartPageAt(surahNumber, i) ==
    LET loc == PAGE_LOCATIONS[i + 1]
    IN  IF surahNumberOf(loc) = surahNumber /\ ayahNumberOf(loc) = 1 THEN i
        ELSE IF surahNumberOf(loc) > surahNumber THEN StartPageBackward(surahNumber, i)
        ELSE LoopFellThrough

\* for (int i = 0; i < QURAN_PAGE_COUNT; i++) of get_surah_start_page, i from
\* lo up to hi: what the first returning iteration returns
RECURSIVE StartPageForward(_, _, _)
StartPageForward(surahNumber, lo, hi) ==
    IF lo > hi THEN LoopFellThrough
    ELSE IF lo = hi THEN StartPageAt(surahNumber, lo)
    ELSE LET mid == (lo + hi) \div 2
             lower == StartPageForward(surahNumber, lo, mid)
         IN  IF lower # LoopFellThrough THEN lower
             ELSE StartPageForward(surahNumber, mid + 1, hi)

quran_renderer_get_surah_start_page(surahNumber) ==
    IF surahNumber < 1 \/ surahNumber > 114 THEN -1
    ELSE LET found == StartPageForward(surahNumber, 0, QURAN_PAGE_COUNT - 1)
         IN  IF found # LoopFellThrough THEN found ELSE -1

AyahOutOfRangeBelowOnly(surahNumber, ayahNumber) ==
    ayahNumber < 1

AyahOutOfRange(surahNumber, ayahNumber) ==
    ayahNumber < 1 \/ ayahNumber > SURAH_DATA[surahNumber].ayahCount

\* the loop body with a strict comparison of the ayah numbers
AyahPageAtStrictly(surahNumber, ayahNumber, i) ==
    LET loc == PAGE_LOCATIONS[i + 1]
    IN  IF surahNumberOf(loc) < surahNumber THEN i + 1
        ELSE IF surahNumberOf(loc) = surahNumber /\ ayahNumberOf(loc) < ayahNumber THEN i
        ELSE LoopFellThrough

\* what the body of the loop of get_ayah_page returns at page i
AyahPageAt(surahNumber, ayahNumber, i) ==
    LET loc == PAGE_LOCATIONS[i + 1]
    IN  IF surahNumberOf(loc) < surahNumber THEN i + 1
        ELSE IF surahNumberOf(loc) = surahNumber /\ ayahNumberOf(loc) <= ayahNumber THEN i
        ELSE LoopFellThrough

\* for (int i = QURAN_PAGE_COUNT - 1; i >= 0; i--) of get_ayah_page, i from hi
\* down to lo: what the first returning iteration returns
RECURSIVE AyahPageBackward(_, _, _, _)
AyahPageBackward(surahNumber, ayahNumber, lo, hi) ==
    IF lo > hi THEN LoopFellThrough
    ELSE IF lo = hi THEN AyahPageAt(surahNumber, ayahNumber, lo)
    ELSE LET mid == (lo + hi) \div 2
             upper == AyahPageBackward(surahNumber, ayahNumber, mid + 1, hi)
         IN  IF upper # LoopFellThrough THEN upper
             ELSE AyahPageBackward(surahNumber, ayahNumber, lo, mid)

quran_renderer_get_ayah_page(surahNumber, ayahNumber) ==
    IF surahNumber < 1 \/ surahNumber > 114 THEN -1
    ELSE IF AyahOutOfRange(surahNumber, ayahNumber) THEN -1
    ELSE LET found == AyahPageBackward(surahNumber, ayahNumber, 0, QURAN_PAGE_COUNT - 1)
         IN  IF found # LoopFellThrough THEN found ELSE 0

\* quran_renderer_get_page_location: the return value and the struct behind location
quran_renderer_get_page_location(pageIndex, location) ==
    IF pageIndex < 0 \/ pageIndex >= QURAN_PAGE_COUNT \/ location = NullOutput
    THEN [ ok |-> FALSE, output |-> location ]
    ELSE [ ok |-> TRUE,
           output |-> [ surahNumber |-> surahNumberOf(PAGE_LOCATIONS[pageIndex + 1]),
                        ayahNumber |-> ayahNumberOf(PAGE_LOCATIONS[pageIndex + 1]),
                        pageIndex |-> pageIndex ] ]

quran_renderer_get_ayah_count(surahNumber) ==
    IF surahNumber < 1 \/ surahNumber > 114 THEN -1
    ELSE SURAH_DATA[surahNumber].ayahCount

(***************************************************************************)
(* The metadata API as actions: a lookup is called with its arguments and  *)
(* returns.  An int result is in ret, a bool result in ok.                 *)
(***************************************************************************)
Query(op, surahNumber, ayahNumber, pageIndex, output) ==
    [ op |-> op, done |-> FALSE, surahNumber |-> surahNumber, ayahNumber |-> ayahNumber,
      pageIndex |-> pageIndex, output |-> output, ret |-> 0, ok |-> FALSE ]

Returned(q, value, ok, output) ==
    [q EXCEPT !.done = TRUE, !.ret = value, !.ok = ok, !.output = output]

Called(op) == lookup # NoLookup /\ lookup.op = op /\ ~lookup.done

GetSurahInfo ==
    /\ Called("get_surah_info")
    /\ LET r == quran_renderer_get_surah_info(lookup.surahNumber, lookup.output)
       IN  lookup' = Returned(lookup, 0, r.ok, r.output)
    /\ UNCHANGED <<renderer, pc, args, geo, lineIndex, shaped, line, drawnDescent, ret>>
    /\ UNCHANGED <<call, pixels, threads>>
    /\ UNCHANGED later

GetSurahStartPage ==
    /\ Called("get_surah_start_page")
    /\ lookup' = Returned(lookup, quran_renderer_get_surah_start_page(lookup.surahNumber),
                          FALSE, lookup.output)
    /\ UNCHANGED <<renderer, pc, args, geo, lineIndex, shaped, line, drawnDescent, ret>>
    /\ UNCHANGED <<call, pixels, threads>>
    /\ UNCHANGED later

GetAyahPage ==
    /\ Called("get_ayah_page")
    /\ lookup' = Returned(lookup,
                          quran_renderer_get_ayah_page(lookup.surahNumber, lookup.ayahNumber),
                          FALSE, lookup.output)
    /\ UNCHANGED <<renderer, pc, args, geo, lineIndex, shaped, line, drawnDescent, ret>>
    /\ UNCHANGED <<call, pixels, threads>>
    /\ UNCHANGED later

GetPageLocation ==
    /\ Called("get_page_location")
    /\ LET r == quran_renderer_get_page_location(lookup.pageIndex, lookup.output)
       IN  lookup' = Returned(lookup, 0, r.ok, r.output)
    /\ UNCHANGED <<renderer, pc, args, geo, lineIndex, shaped, line, drawnDescent, ret>>
    /\ UNCHANGED <<call, pixels, threads>>
    /\ UNCHANGED later

\* a caller hands the QuranAyahLocation it was given to get_ayah_page; the
\* struct stays with the query
AyahPageOfLocation ==
    /\ lookup # NoLookup
    /\ lookup.op = "get_page_location"
    /\ lookup.done
    /\ lookup.ok
    /\ lookup' = Query("get_ayah_page", lookup.output.surahNumber,
                       lookup.output.ayahNumber, 0, lookup.output)
    /\ UNCHANGED <<renderer, pc, args, geo, lineIndex, shaped, line, drawnDescent, ret>>
    /\ UNCHANGED <<call, pixels, threads>>
    /\ UNCHANGED later

GetAyahCount ==
    /\ Called("get_ayah_count")
    /\ lookup' = Returned(lookup, quran_renderer_get_ayah_count(lookup.surahNumber),
                          FALSE, lookup.output)
    /\ UNCHANGED <<renderer, pc, args, geo, lineIndex, shaped, line, drawnDescent, ret>>
    /\ UNCHANGED <<call, pixels, threads>>
    /\ UNCHANGED later

Init ==
    /\ renderer = NullRenderer
    /\ pc = "idle"
    /\ args = NoCall
    /\ geo = NoCall
    /\ lineIndex = 0
    /\ shaped = NoRun
    /\ line = NoLine
    /\ drawnDescent = 0
    /\ ret = "none"
    /\ call = NoCall
    /\ pixels = Untouched
    /\ lookup = NoLookup
    /\ threads = NoThreads
    /\ LaterIdle

(***************************************************************************)
(* Properties of a painted line.  A position of the line's coordinates is  *)
(* pen; its pixel is tx + a * pen, and its distance in page font units is  *)
(* ratio times the distance in line units.                                 *)
(***************************************************************************)
Painted == pc = "lines" /\ line # NoLine

PixelOf(d, pen) == RatAdd(d.tx, RatMul(d.a, pen))

\* the width the glyph walk covered, in page font units
LaidWidth(d) == RatMul(d.ratio, RatSub(d.penStart, d.penEnd))

\* two widths in font units less than one pixel apart
WithinOnePixel(x, y) == RatLeq(RatMul(RatAbs(RatSub(x, y)), geo.renderScale), RatOfInt(1))

Shortfall(d) == RatSub(d.lineWidth, RatOfInt(d.naturalWidth))

HasFiller(d) == d.nbSpaces > 0

TextNarrower(d) == RatLess(RatOfInt(d.naturalTextWidth), d.lineWidth)

TooWide(d) == RatLess(d.lineWidth, RatOfInt(d.naturalWidth))

NaturalAdvances(d) ==
    \A i \in 1..Len(d.painted) : d.painted[i].moved = RatOfInt(d.painted[i].x_advance)

RatRound(x) == (2 * x[1] + x[2]) \div (2 * x[2])

IsDefaultCall == args.fontSize = 0 /\ args.lineHeightDivisor = 0
                 /\ args.topMarginLines < 0 /\ args.fontScale = 4

\* all 15 lines of the page are drawn
PageDrawn == pc = "lines" /\ shaped = NoRun
             /\ lineIndex = Len(renderer.pages[args.pageIndex])
             /\ lineIndex = LinesPerPage

\* C1: with the default configuration the last of 15 baselines plus the
\* largest descent drawn on the page, in pixels, stays inside the canvas:
\* y0 + 14 * P + worstCaseDescent <= H.
C1_LastLineInsideCanvas ==
    (PageDrawn /\ IsDefaultCall) =>
        RatLeq(RatAdd(RatOfInt(geo.y_start + 14 * geo.inter_line),
                      RatMul(RatOfInt(drawnDescent), geo.renderScale)),
               RatOfInt(args.height))

\* C2 as claimed: a justified body line whose text-only width is below the
\* target and that holds a filler is laid out to the target width.
C2_JustifiedLineFillsTarget ==
    (Painted /\ line.drawn.just_type = "just"
       /\ TextNarrower(line.drawn) /\ HasFiller(line.drawn)) =>
        WithinOnePixel(LaidWidth(line.drawn), line.drawn.lineWidth)

\* C2 amended: such a line is laid out to the target width when it is
\* shrunk (total advance above the target) or when its shortfall exceeds
\* 1% of the target; with a shortfall of at most 1% it keeps its natural
\* width, which then lies within 1% of the target.
C2_FillsTargetBeyondOnePercent ==
    (Painted /\ line.drawn.just_type = "just"
       /\ TextNarrower(line.drawn) /\ HasFiller(line.drawn)) =>
        IF TooWide(line.drawn)
           \/ RatLess(RatMul(line.drawn.lineWidth, Rat(1, 100)), Shortfall(line.drawn))
        THEN LaidWidth(line.drawn) = line.drawn.lineWidth
        ELSE /\ LaidWidth(line.drawn) = RatOfInt(line.drawn.naturalWidth)
             /\ RatLeq(Shortfall(line.drawn), RatMul(line.drawn.lineWidth, Rat(1, 100)))

C2_PaddedLine ==
    /\ Painted /\ line.drawn.just_type = "just"
    /\ TextNarrower(line.drawn) /\ HasFiller(line.drawn)
    /\ ~TooWide(line.drawn)
    /\ \E i \in 1..Len(line.drawn.painted) :
          /\ line.drawn.painted[i].codepoint = spaceCodePoint
          /\ RatLess(RatOfInt(line.drawn.painted[i].x_advance), line.drawn.painted[i].moved)
    /\ LaidWidth(line.drawn) = line.drawn.lineWidth

\* C3: a line whose total advance exceeds the target is scaled by exactly
\* target / advance (the canvas scale becomes renderScale * ratio, so the
\* advance lands on the target), and every glyph of it, fillers included,
\* moves the pen by its natural advance.
C3_ShrinkByExactRatio ==
    (Painted /\ TooWide(line.drawn)) =>
        /\ RatMul(line.drawn.ratio, RatOfInt(line.drawn.naturalWidth)) = line.drawn.lineWidth
        /\ line.drawn.a = RatMul(geo.renderScale, line.drawn.ratio)
        /\ LaidWidth(line.drawn) = line.drawn.lineWidth
        /\ NaturalAdvances(line.drawn)

C3_ShrunkLineWithFiller ==
    /\ Painted /\ TooWide(line.drawn) /\ HasFiller(line.drawn)
    /\ line.drawn.just_type = "just"
    /\ RatLess(line.drawn.ratio, RatOfInt(1))

\* C4: a filler is moved by something other than its natural advance only
\* when the caller asked for justification and the line is a justified
\* line; with justify = false every glyph moves by its natural advance.
C4_PaddingOnlyWhenJustifyRequested ==
    Painted =>
        (NaturalAdvances(line.drawn)
         \/ (args.justify /\ line.drawn.just_type = "just"))

C6_ExplicitPitchUsed ==
    (pc = "lines" /\ args.lineHeightDivisor > 0) =>
        geo.inter_line = (4 * args.height) \div args.lineHeightDivisor

\* C7: the pitch is at least trunc(1.2 * trunc((width / 17) * 0.9)) on
\* every canvas.
C7_PitchAtLeastFontSizeTimes12 ==
    pc = "lines" => geo.inter_line >= (12 * ((9 * args.width) \div 170)) \div 10

\* C8 as claimed: without an explicit font size F = round((W / 17) * 0.9 * s),
\* s the font scale clamped to [0.5, 2.0] (held in quarters: 2..8); an
\* explicit font size is used as it is.
C8_FontSizeRounded ==
    pc = "lines" =>
        geo.char_height =
            IF args.fontSize > 0 THEN args.fontSize
            ELSE RatRound(RatMul(Rat(9 * args.width, 170),
                                 Rat(Max(2, Min(8, args.fontScale)), 4)))

\* C8 amended: without an explicit font size
\* F = trunc(trunc((W / 17) * 0.9) * s), s clamped to [0.5, 2.0]; an explicit
\* font size is used as it is, whatever the scale.
C8_FontSizeTruncatedTwice ==
    pc = "lines" =>
        geo.char_height =
            IF args.fontSize > 0 THEN args.fontSize
            ELSE RatTrunc(RatMul(RatOfInt(RatTrunc(Rat(9 * args.width, 170))),
                                 Rat(Max(2, Min(8, args.fontScale)), 4)))

C8_ScaledAutoFontSize ==
    /\ pc = "lines" /\ args.fontSize = 0 /\ args.fontScale = 6
    /\ args.width = 1080 /\ geo.char_height = 85

C10_ForegroundOverrideWins ==
    (Painted /\ args.useForeground) =>
        \A i \in 1..Len(line.drawn.painted) :
            line.drawn.painted[i].color = geo.textColor


\* 1000 * 255 * luminance by the formula, in exact arithmetic
ExactLuminance(backgroundColor) ==
    299 * backgroundColor[1] + 587 * backgroundColor[2] + 114 * backgroundColor[3]

ForegroundWhite == HB_COLOR(255, 255, 255, 255)
ForegroundBlack == HB_COLOR(0, 0, 0, 255)

\* C11: the text colour of a draw_page call is white exactly when
\* (0.299 R + 0.587 G + 0.114 B) / 255 < 0.5 for the background's R, G, B,
\* and black otherwise, whatever the alpha.
C11_ForegroundByLuminance ==
    pc = "lines" =>
        geo.textColor = IF 2 * ExactLuminance(args.backgroundColor) < 255 * 1000
                        THEN ForegroundWhite ELSE ForegroundBlack

(***************************************************************************)
(* Callers: the canvases, pages and configurations draw_page is called     *)
(* with, and the specifications                                            *)
(***************************************************************************)
\* C12: a draw_page call with a null renderer, a null buffer, a buffer
\* without pixels or a page index outside 0..603 returns without writing
\* to the buffer and without changing the engine, stored tajweed flag
\* included.
C12_InvalidDrawPageChangesNothing ==
    [][(/\ pc = "idle"
        /\ ret' \in {"noop", "drawing"}
        /\ \/ renderer = NullRenderer
           \/ call'.buffer \in {"null", "nopixels"}
           \/ call'.pageIndex \notin 0..603)
       => (renderer' = renderer /\ pixels' = pixels /\ pc' = "idle")]_vars

C12_InvalidCallOnLiveEngine ==
    /\ ret = "noop" /\ renderer # NullRenderer
    /\ pixels # Untouched
    /\ call.tajweed # renderer.tajweed
    /\ call.buffer = "nopixels" /\ call.pageIndex = 0

(***************************************************************************)
(* Properties of the metadata lookups.                                     *)
(***************************************************************************)
\* lexicographic order of (surah, ayah) locations
LocationLeq(x, y) == x[1] < y[1] \/ (x[1] = y[1] /\ x[2] <= y[2])
LocationLess(x, y) == x[1] < y[1] \/ (x[1] = y[1] /\ x[2] < y[2])

\* page p is the page whose span of locations holds (surah, ayah)
PageHolds(p, surahNumber, ayahNumber) ==
    /\ p \in 0..603
    /\ LocationLeq(PAGE_LOCATIONS[p + 1], <<surahNumber, ayahNumber>>)
    /\ (p = 603 \/ LocationLess(<<surahNumber, ayahNumber>>, PAGE_LOCATIONS[p + 2]))

ValidSurah(surahNumber) == surahNumber \in 1..114
ValidAyah(surahNumber, ayahNumber) ==
    ValidSurah(surahNumber) /\ ayahNumber \in 1..SURAH_DATA[surahNumber].ayahCount

ReturnedFrom(op) == lookup # NoLookup /\ lookup.op = op /\ lookup.done

\* C13: for every surah s in 1..114 and ayah a in 1..ayahCount(s),
\* get_ayah_page(s, a) is the page p that holds the ayah: the page-start
\* location of p is <= (s, a), and p = 603 or (s, a) < the page-start
\* location of p + 1.
C13_AyahPageHoldsAyah ==
    (ReturnedFrom("get_ayah_page") /\ ValidAyah(lookup.surahNumber, lookup.ayahNumber))
        => PageHolds(lookup.ret, lookup.surahNumber, lookup.ayahNumber)

\* C14: get_surah_start_page(s) is the page that holds ayah 1 of s, the
\* largest page whose page-start location is <= (s, 1), also when s begins
\* in the middle of a page.
C14_StartPageHoldsFirstAyah ==
    (ReturnedFrom("get_surah_start_page") /\ ValidSurah(lookup.surahNumber))
        => PageHolds(lookup.ret, lookup.surahNumber, 1)

\* C15: for valid arguments get_surah_start_page and get_ayah_page return a
\* page index in 0..603; -1 is returned only for invalid arguments and no
\* value above 603 is ever returned.
C15_PageIndexInRange ==
    /\ ReturnedFrom("get_surah_start_page") =>
          /\ lookup.ret <= 603
          /\ ValidSurah(lookup.surahNumber) => lookup.ret \in 0..603
    /\ ReturnedFrom("get_ayah_page") =>
          /\ lookup.ret <= 603
          /\ ValidAyah(lookup.surahNumber, lookup.ayahNumber) => lookup.ret \in 0..603

\* C16: get_surah_start_page(s) <= get_ayah_page(s, a) for every ayah of s,
\* and the page of the last ayah of s is at most
\* get_surah_start_page(s + 1) - 1 for s < 114 and at most 603 for s = 114.
C16_AyahPagesBetweenSurahStarts ==
    (ReturnedFrom("get_ayah_page") /\ ValidAyah(lookup.surahNumber, lookup.ayahNumber))
        => /\ quran_renderer_get_surah_start_page(lookup.surahNumber) <= lookup.ret
           /\ lookup.ayahNumber = SURAH_DATA[lookup.surahNumber].ayahCount =>
                 lookup.ret <= IF lookup.surahNumber < 114
                               THEN quran_renderer_get_surah_start_page(lookup.surahNumber + 1) - 1
                               ELSE 603

\* C17: every metadata lookup returns its failure value and leaves the
\* output struct as it was when an argument is out of range: get_surah_info
\* false for a surah outside 1..114 or a null output, get_surah_start_page
\* and get_ayah_count -1 for a surah outside 1..114, get_ayah_page -1 for a
\* surah outside 1..114 or an ayah outside 1..ayahCount, get_page_location
\* false for a page outside 0..603 or a null output.
C17_LookupsRejectOutOfRange ==
    /\ (ReturnedFrom("get_surah_info")
          /\ (~ValidSurah(lookup.surahNumber) \/ lookup.output = NullOutput))
         => (~lookup.ok /\ lookup.output \in {NullOutput, Unwritten})
    /\ (ReturnedFrom("get_surah_start_page") /\ ~ValidSurah(lookup.surahNumber))
         => lookup.ret = -1
    /\ (ReturnedFrom("get_ayah_count") /\ ~ValidSurah(lookup.surahNumber))
         => lookup.ret = -1
    /\ (ReturnedFrom("get_ayah_page") /\ ~ValidAyah(lookup.surahNumber, lookup.ayahNumber))
         => lookup.ret = -1
    /\ (ReturnedFrom("get_page_location")
          /\ (lookup.pageIndex \notin 0..603 \/ lookup.output = NullOutput))
         => (~lookup.ok /\ lookup.output \in {NullOutput, Unwritten})

C17_AyahPastEndRejected ==
    /\ ReturnedFrom("get_ayah_page")
    /\ ValidSurah(lookup.surahNumber)
    /\ lookup.ayahNumber = SURAH_DATA[lookup.surahNumber].ayahCount + 1
    /\ lookup.ret = -1

(***************************************************************************)
(* Properties of concurrent draw calls.                                    *)
(***************************************************************************)
\* what a call would shape and paint with if it were alone on the instance
OwnFlag(t) == threads[t].tajweed /\ ~threads[t].disableTajweed
OwnFeature(t) == IF OwnFlag(t) THEN 1 ELSE 0
OwnCoords(t) == IF Extend(threads[t].tatweel) THEN threads[t].tatweel ELSE NullCoords

\* the call took the tajweed flag another call stored
ForeignFlag(t) ==
    /\ threads[t].pc \in {"shape", "coords", "paint", "reset"}
    /\ threads[t].useTajweed # OwnFlag(t)

\* the call shaped with a feature value another call stored
ForeignFeature(t) ==
    /\ threads[t].pc \in {"coords", "paint", "reset"}
    /\ threads[t].shapedWith # OwnFeature(t)

\* the call painted with font coordinates another call stored or cleared
ForeignCoords(t) ==
    /\ threads[t].pc = "reset"
    /\ threads[t].paintedWith # OwnCoords(t)

\* C18: one instance is not safe for concurrent draw calls: there is an
\* interleaving in which a call shapes or paints a glyph while the font
\* coordinates, features[0].value or the tajweed flag written by the other
\* call are in effect.  A call sees such state only if the other call ran
\* during it; calls that do not overlap see their own.
C18_ForeignStateOnlyWhenCallsOverlap ==
    threads # NoThreads =>
        \A t \in Threads :
            (ForeignFlag(t) \/ ForeignFeature(t) \/ ForeignCoords(t))
                => threads[t].overlapped

C18_GlyphDrawnUnderForeignState ==
    /\ threads # NoThreads
    /\ \E t \in Threads :
          /\ ~ForeignFlag(t)
          /\ ForeignFeature(t)
          /\ ForeignCoords(t)

(***************************************************************************)
(* Properties of the entry points taken together.                          *)
(***************************************************************************)
\* the line drawLine is working on, and the last line of the page drawn last
CurrentLineType == renderer.pages[args.pageIndex][lineIndex + 1].line_type
LastLineType ==
    LET page == renderer.pages[call.pageIndex] IN page[Len(page)].line_type

\* C19: what a draw_page call decides and what it leaves in the engine
\* depend only on its arguments and the corpus, whatever draw_page,
\* draw_text or measure_text call came before: the stored tajweed flag and
\* the page geometry are those of the arguments, every line is shaped with
\* the feature value and coloured with the tajweed decision of the
\* arguments and the line's type, the font carries no coordinates between
\* glyphs, an opaque background is filled as asked, and after the call the
\* engine holds the flag of the arguments and the feature value of the
\* page's last line.
C19_DrawPageIgnoresEarlierCalls ==
    /\ pc = "lines" =>
          /\ renderer.tajweed = args.tajweed
          /\ geo = PageGeometry(args, renderer.upem)
          /\ renderer.font_num_coords = 0 /\ renderer.font_coords = <<>>
          /\ args.backgroundColor[4] # 0 =>
                /\ pixels.background = args.backgroundColor
                /\ pixels.colorType = ColorTypeOf(pixels.format)
    /\ (pc = "lines" /\ shaped # NoRun) =>
          renderer.features_value =
              IF args.tajweed /\ CurrentLineType # "Sura" THEN 1 ELSE 0
    /\ Painted =>
          line.drawn.useTajweed = (args.tajweed /\ line.drawn.line_type # "Sura")
    /\ (pc = "idle" /\ ret = "drawn") =>
          /\ renderer.tajweed = call.tajweed
          /\ renderer.features_value =
                IF call.tajweed /\ LastLineType # "Sura" THEN 1 ELSE 0
          /\ renderer.font_num_coords = 0 /\ renderer.font_coords = <<>>

C19_ShapedAfterMeasureText ==
    /\ pc = "lines" /\ shaped # NoRun
    /\ call.after = "measured"
    /\ ~args.tajweed
    /\ renderer.features_value = 0

\* C20: every rendering entry point writes its pixels, background fill
\* included, in the channel order the buffer's format asks for.
C20_PixelsInRequestedOrder ==
    pixels.by # "nobody" =>
        /\ pixels.colorType # "none" => pixels.colorType = ColorTypeOf(pixels.format)
        /\ pixels.textType # "none" => pixels.textType = ColorTypeOf(pixels.format)

(***************************************************************************)
(* Properties of the lines draw_wrapped_text and draw_multiline_text build *)
(***************************************************************************)
IsBlank(b) == b = ByteSpace \/ b = ByteTab

\* the non-empty words of a text: its maximal runs of bytes other than space and tab
WordStarts(text) ==
    {i \in 1..Len(text) : ~IsBlank(text[i]) /\ (i = 1 \/ IsBlank(text[i - 1]))}

WordEnd(text, i) ==
    CHOOSE j \in i..Len(text) :
        /\ \A k \in i..j : ~IsBlank(text[k])
        /\ j = Len(text) \/ IsBlank(text[j + 1])

RECURSIVE WordsFrom(_, _)
WordsFrom(text, starts) ==
    IF starts = {} THEN <<>>
    ELSE LET i == CHOOSE x \in starts : \A y \in starts : x <= y
         IN  <<SubSeq(text, i, WordEnd(text, i))>> \o WordsFrom(text, starts \ {i})

WordsOf(text) == WordsFrom(text, WordStarts(text))

RECURSIVE Concat(_)
Concat(seqs) == IF seqs = <<>> THEN <<>> ELSE Head(seqs) \o Concat(Tail(seqs))

WordsOfLines(lines) == Concat([k \in 1..Len(lines) |-> WordsOf(lines[k])])

\* number of words on the lines before line k
WordsBefore(lines, k) == Len(WordsOfLines(SubSeq(lines, 1, k - 1)))

RECURSIVE Sum(_)
Sum(seq) == IF seq = <<>> THEN 0 ELSE Head(seq) + Sum(Tail(seq))

\* sum of the measured widths of the words of line k plus one space width
\* between adjacent words
MeasuredLineWidth(k) ==
    LET n == Len(WordsOf(wrap.lines[k]))
        first == WordsBefore(wrap.lines, k) + 1
    IN  Sum(SubSeq(wrap.widths, first, first + n - 1)) + (n - 1) * wrap.spaceWidth

Wrapping == wrap.at # "none" /\ wrap.entry = "draw_wrapped_text"
Wrapped == Wrapping /\ wrap.at = "done" /\ ~wrap.rejected

\* C21: every line draw_wrapped_text produces has a measured width (the
\* widths of its words plus one space width between adjacent words) of at
\* most the effective line width, unless it is a single word.
C21_WrappedLinesFit ==
    Wrapping =>
        \A k \in 1..Len(wrap.lines) :
            \/ Len(WordsOf(wrap.lines[k])) = 1
            \/ MeasuredLineWidth(k) <= wrap.maxLineWidth

\* a call that wrapped its words into a line of two words and a further line
C21_TwoWordsThenWrapped ==
    /\ Wrapped
    /\ Len(wrap.lines) >= 2
    /\ \E k \in 1..Len(wrap.lines) :
          /\ Len(WordsOf(wrap.lines[k])) = 2
          /\ MeasuredLineWidth(k) <= wrap.maxLineWidth
          /\ MeasuredLineWidth(k) > 0

\* C22: draw_multiline_text and draw_wrapped_text return the number of lines
\* for which text was drawn, and -1 when the renderer, buffer, pixels or
\* text is null.
C22_ReturnsLinesDrawn ==
    wrap.at = "done" =>
        IF wrap.rejected
        THEN wrap.returned = -1
        ELSE wrap.returned = Len(wrap.drawn)

\* the background the call painted: config.backgroundColor, opaque white without a config
PaintedBackground(config) ==
    IF config # NullConfig THEN config.backgroundColor ELSE <<255, 255, 255, 255>>

IsAutoColor(config) == config = NullConfig \/ config.textColor = AutoTextColor

\* C23: when the text colour is auto, draw_text, draw_multiline_text and
\* draw_wrapped_text draw the text white on a dark painted background and
\* black on a light one.
C23_AutoColorAgainstPaintedBackground ==
    wrap.at \in {"lines", "done"} /\ wrap.drawn # <<>> /\ IsAutoColor(wrap.call.config) =>
        pixels.textColor = IF 2 * ExactLuminance(PaintedBackground(wrap.call.config)) < 255 * 1000
                           THEN ForegroundWhite ELSE ForegroundBlack

\* C29: the words of the lines draw_wrapped_text produces, in order, are the
\* non-empty words of the text split at spaces and tabs, and no line is empty.
C29_WrappingKeepsWords ==
    Wrapping /\ wrap.at \in {"lines", "done"} /\ ~wrap.rejected =>
        /\ WordsOfLines(wrap.lines) = WordsOf(wrap.call.text)
        /\ \A k \in 1..Len(wrap.lines) : wrap.lines[k] # <<>>

\* a text with a tab next to a space and both letters that was wrapped into
\* two lines
C29_TwoLinesFromBlanks ==
    /\ Wrapped
    /\ Len(wrap.lines) = 2
    /\ wrap.lines[1] # wrap.lines[2]
    /\ \E i \in 1..Len(wrap.call.text) - 1 :
          wrap.call.text[i] = ByteSpace /\ wrap.call.text[i + 1] = ByteTab

\* C24: whenever setFont(font) returns true, the Kotlin renderer is
\* initialized, a native renderer exists and getCurrentFont() is font.
C24_SetFontTrueMeansInitialized ==
    kotlin.at = "object" /\ kotlin.op = "setFont" /\ kotlin.returned =>
        /\ kotlin.initialized
        /\ kotlin.g_renderer # NullHandle
        /\ kotlin.currentFont = kotlin.font

\* font units in pixels, as a fraction
InPixels(units) == RatMul(RatOfInt(units), plan.scale)

\* C25: a measured pitch below the ceiling height / 15 is at least the
\* page's largest ascent plus the page's largest descent in pixels, and so
\* at least the descent of any line plus the ascent of the line below it.
C25_MeasuredPitchCoversPageExtents ==
    plan.at = "done" /\ plan.measured /\ plan.required <= plan.call.height \div 15 =>
        /\ RatLeq(InPixels(plan.maxAscent + plan.maxDescent), RatOfInt(plan.result))
        /\ RatLeq(InPixels(plan.adjacent), RatOfInt(plan.result))

\* C26: after parseQuranText, on a page other than 0 and 1 a line is centred
\* exactly when its type is Bism or Sura and justified exactly when it is
\* Line; on pages 0 and 1 the first line is centred and every other line is
\* a justified Line with a lineWidths entry at 15 * page + line.
C26_ClassifiedAlignment ==
    renderer # NullRenderer =>
        \A p \in DOMAIN renderer.pages :
            \A i \in 1..Len(renderer.pages[p]) :
                LET l == renderer.pages[p][i]
                    key == 15 * p + (i - 1)
                IN  IF p \notin {0, 1}
                    THEN /\ l.just_type = "center" <=> l.line_type \in {"Bism", "Sura"}
                         /\ l.just_type = "just" <=> l.line_type = "Line"
                    ELSE IF i = 1
                    THEN l.just_type = "center"
                    ELSE /\ l.line_type = "Line"
                         /\ l.just_type = "just"
                         /\ key \in DOMAIN renderer.lineWidths
                         /\ renderer.lineWidths[key] = FatihaLineWidth(i - 1)

\* page 1 opens with a plain line and goes on with a title, page 2 holds an
\* invocation and a plain line
C26_OpeningAndBodyPages ==
    /\ renderer # NullRenderer
    /\ {1, 2} \subseteq DOMAIN renderer.pages
    /\ Len(renderer.pages[1]) >= 2
    /\ renderer.pages[1][1] = [line_type |-> "Line", just_type |-> "center"]
    /\ renderer.pages[1][2] = [line_type |-> "Line", just_type |-> "just"]
    /\ 16 \in DOMAIN renderer.lineWidths
    /\ \E i, j \in 1..Len(renderer.pages[2]) :
          /\ renderer.pages[2][i] = [line_type |-> "Bism", just_type |-> "center"]
          /\ renderer.pages[2][j] = [line_type |-> "Line", just_type |-> "just"]

\* the query asks for the page of a location that get_page_location wrote
OfLocation == lookup # NoLookup /\ lookup.output \notin {NullOutput, Unwritten}

\* C28: for every page index p in 0..603 get_page_location(p) succeeds with
\* a valid ayah (surah in 1..114, ayah in 1..ayahCount), and get_ayah_page
\* of that surah and ayah returns p.
C28_PageLocationRoundTrip ==
    /\ (ReturnedFrom("get_page_location") /\ lookup.pageIndex \in 0..603
            /\ lookup.output # NullOutput)
        => /\ lookup.ok
           /\ lookup.output.pageIndex = lookup.pageIndex
           /\ ValidAyah(lookup.output.surahNumber, lookup.output.ayahNumber)
    /\ (ReturnedFrom("get_ayah_page") /\ OfLocation)
        => lookup.ret = lookup.output.pageIndex

\* the round trip of page 105, which starts inside surah 4, and of the last page
C28_MidSurahPageRoundTrip ==
    /\ ReturnedFrom("get_ayah_page")
    /\ OfLocation
    /\ lookup.output.pageIndex \in {105, 603}
    /\ lookup.ayahNumber > 1 \/ lookup.output.pageIndex = 603

\* C27: in the glyph loops of drawLine and draw_text a glyph with non-zero
\* tatweel values is painted with its own coordinates, a glyph without them
\* is painted with no coordinates, whatever was painted before it, and when
\* the call returns the font has num_coords = 0 and coords = null.
C27_CoordsTransientPerGlyph ==
    /\ \A k \in 1..Len(paint.painted) :
          LET g == paint.painted[k]
          IN  IF Extend(g.tatweel)
              THEN g.num_coords = 2 /\ g.coords = g.tatweel
              ELSE g.num_coords = 0 /\ g.coords = NullCoords
    /\ (paint.at = "returned" /\ renderer # NullRenderer)
          => renderer.font_num_coords = 0 /\ renderer.font_coords = NullCoords

\* a glyph without tatweel painted after an extended one, the call returned
C27_PlainGlyphAfterExtendedGlyph ==
    /\ paint.at = "returned"
    /\ Len(paint.painted) >= 2
    /\ Extend(paint.painted[1].tatweel)
    /\ ~Extend(paint.painted[2].tatweel)

\* C30: whatever renderers are created and destroyed, a callback table that
\* a lazy loader or a live renderer points to has not been freed, and a live
\* renderer paints through a table that is alive.
C30_TablesOutliveTheirUsers ==
    funcs # NoFuncs =>
        /\ \A k \in FuncsKinds :
              (funcs.instance[k] # NullFuncs
                  \/ \E id \in DOMAIN funcs.live : funcs.live[id][k] # NullFuncs)
              => funcs.table[k].state = "alive"
        /\ funcs.last.op = "paint" => funcs.last.through = "alive"
        /\ funcs.outcome = "running"

White == <<255, 255, 255, 255>>
Dark == <<30, 30, 30, 255>>

Canvases == {<<1700, 3000>>, <<1700, 900>>}
PageIndexes == {-1, 0, 603, 604}
Buffers == {"ok", "null", "nopixels"}

CallsWith(canvases, configs) ==
    { [ buffer |-> b, format |-> "RGBA8888", width |-> c[1], height |-> c[2],
        pageIndex |-> p, config |-> k ] :
          b \in Buffers, c \in canvases, p \in PageIndexes, k \in configs }

GeometryConfigs ==
    [ tajweed : {TRUE}, justify : {TRUE}, fontScale : {1, 4, 6, 9},
      backgroundColor : {White}, fontSize : {0, 48}, useForeground : {FALSE},
      lineHeightDivisor : {0, 40}, topMarginLines : {-4, 0, 2} ] \cup {NullConfig}

LayoutConfigs ==
    [ tajweed : {TRUE}, justify : BOOLEAN, fontScale : {4, 6},
      backgroundColor : {White}, fontSize : {0}, useForeground : {FALSE},
      lineHeightDivisor : {0}, topMarginLines : {-4} ]

ColorConfigs ==
    [ tajweed : BOOLEAN, justify : {TRUE}, fontScale : {4},
      backgroundColor : {White, Dark}, fontSize : {0}, useForeground : BOOLEAN,
      lineHeightDivisor : {0}, topMarginLines : {-4} ]

\* backgrounds on both sides of luminance 0.5 and on it, with several alphas
ForegroundBackgrounds ==
    { White, Dark, <<30, 30, 30, 0>>, <<127, 127, 127, 255>>, <<128, 128, 128, 0>>,
      <<0, 204, 68, 255>>, <<232, 80, 98, 255>>, <<232, 80, 98, 0>>,
      <<232, 80, 97, 255>>, <<232, 80, 99, 255>> }

ForegroundConfigs ==
    [ tajweed : {TRUE}, justify : {TRUE}, fontScale : {4},
      backgroundColor : ForegroundBackgrounds, fontSize : {0}, useForeground : BOOLEAN,
      lineHeightDivisor : {0}, topMarginLines : {-4} ]

ForegroundCalls == CallsWith({<<1700, 3000>>}, ForegroundConfigs)

GeometryCalls == CallsWith(Canvases \cup {<<1080, 2400>>}, GeometryConfigs)
LayoutCalls == CallsWith(Canvases, LayoutConfigs)
ColorCalls == CallsWith({<<1700, 3000>>}, ColorConfigs)

GeometryGlyphs == {GlyphWord, GlyphSpace}
LayoutGlyphs == {GlyphWord, GlyphTajweed, GlyphSpace}
ColorGlyphs == {GlyphWord, GlyphTajweed, GlyphSpace, GlyphOrnament}

\* page geometry: every geometry argument varies
NextGeometry ==
    \/ Create({FontEmbedded, FontBroken}, {qurantextA})
    \/ CreateFails({FontEmbedded, FontBroken})
    \/ DrawPageRejected(GeometryCalls)
    \/ DrawPageBegin(GeometryCalls)
    \/ ShapeLine(GeometryGlyphs)
    \/ PaintLine
    \/ DrawPageReturn

SpecGeometry == Init /\ [][NextGeometry]_vars

\* line layout: justification flag, line widths, corpora and shaped widths vary
NextLayout ==
    \/ Create({FontEmbedded, FontBroken}, {qurantextA, qurantextB})
    \/ CreateFails({FontEmbedded, FontBroken})
    \/ DrawPageRejected(LayoutCalls)
    \/ DrawPageBegin(LayoutCalls)
    \/ ShapeLine(LayoutGlyphs)
    \/ PaintLine
    \/ DrawPageReturn

SpecLayout == Init /\ [][NextLayout]_vars

\* colour: tajweed flag, foreground override, background, fonts and glyph layers vary
NextColor ==
    \/ Create({FontEmbedded, FontPlain, FontBroken}, {qurantextA})
    \/ CreateFails({FontEmbedded, FontPlain, FontBroken})
    \/ DrawPageRejected(ColorCalls)
    \/ DrawPageBegin(ColorCalls)
    \/ ShapeLine(ColorGlyphs)
    \/ PaintLine
    \/ DrawPageReturn

SpecColor == Init /\ [][NextColor]_vars

\* text colour: the background varies
NextForeground ==
    \/ Create({FontEmbedded, FontBroken}, {qurantextA})
    \/ CreateFails({FontEmbedded, FontBroken})
    \/ DrawPageRejected(ForegroundCalls)
    \/ DrawPageBegin(ForegroundCalls)
    \/ ShapeLine({GlyphWord, GlyphTajweed})
    \/ PaintLine
    \/ DrawPageReturn

SpecForeground == Init /\ [][NextForeground]_vars

\* metadata lookups: every surah and ayah, and arguments on both sides of each range
SurahNumbers == -1..116
PageNumbers == -1..605
AyahNumbers(surahNumber) ==
    IF surahNumber \in 1..QURAN_SURAH_COUNT
    THEN -1..(SURAH_DATA[surahNumber].ayahCount + 2)
    ELSE -1..3
Outputs == {NullOutput, Unwritten}

MetadataQueries ==
    {Query("get_surah_info", s, 0, 0, o) : s \in SurahNumbers, o \in Outputs}
    \cup {Query("get_surah_start_page", s, 0, 0, NullOutput) : s \in SurahNumbers}
    \cup UNION {{Query("get_ayah_page", s, a, 0, NullOutput) : a \in AyahNumbers(s)} :
                   s \in SurahNumbers}
    \cup {Query("get_page_location", 0, 0, p, o) : p \in PageNumbers, o \in Outputs}
    \cup {Query("get_ayah_count", s, 0, 0, NullOutput) : s \in SurahNumbers}

InitMetadata ==
    /\ renderer = NullRenderer
    /\ pc = "idle"
    /\ args = NoCall
    /\ geo = NoCall
    /\ lineIndex = 0
    /\ shaped = NoRun
    /\ line = NoLine
    /\ drawnDescent = 0
    /\ ret = "none"
    /\ call = NoCall
    /\ pixels = Untouched
    /\ lookup \in MetadataQueries
    /\ threads = NoThreads
    /\ LaterIdle

NextMetadata ==
    \/ GetSurahInfo
    \/ GetSurahStartPage
    \/ GetAyahPage
    \/ GetPageLocation
    \/ GetAyahCount

SpecMetadata == InitMetadata /\ [][NextMetadata]_vars

InitRace ==
    /\ renderer = NullRenderer
    /\ pc = "idle"
    /\ args = NoCall
    /\ geo = NoCall
    /\ lineIndex = 0
    /\ shaped = NoRun
    /\ line = NoLine
    /\ drawnDescent = 0
    /\ ret = "none"
    /\ call = NoCall
    /\ pixels = Untouched
    /\ lookup = NoLookup
    /\ threads = [t \in Threads |-> IdleThread]
    /\ LaterIdle

\* two callers on one instance
NextRace ==
    \/ Create({FontEmbedded, FontBroken}, {qurantextA})
    \/ CreateFails({FontEmbedded, FontBroken})
    \/ RaceEnter
    \/ RaceSetFeature
    \/ RaceShape
    \/ RaceSetCoords
    \/ RacePaint
    \/ RaceReturn

SpecRace == InitRace /\ [][NextRace]_vars

\* all entry points on one handle: page and text calls in any order
ApiConfigs ==
    [ tajweed : BOOLEAN, justify : {TRUE}, fontScale : {4},
      backgroundColor : {White}, fontSize : {0}, useForeground : {FALSE},
      lineHeightDivisor : {0}, topMarginLines : {-4} ]

ApiCalls ==
    { [c EXCEPT !.format = f] :
          c \in {k \in CallsWith({<<1700, 3000>>}, ApiConfigs) :
                    k.buffer = "ok" /\ k.pageIndex \in {0, 604}},
          f \in PixelFormats }

TextConfigs ==
    { NullConfig,
      [ textColor |-> <<200, 0, 0, 255>>, backgroundColor |-> Dark, tajweed |-> TRUE ] }

\* calls that are turned away or have nothing to draw
IdleTextCalls ==
    { TextCall("nopixels", "RGBA8888", <<1>>, 3, NullConfig),
      TextCall("ok", "RGBA8888", NullText, 3, NullConfig),
      TextCall("ok", "RGBA8888", <<>>, 3, NullConfig) }

TextCalls ==
    { TextCall("ok", f, <<1, 0, 1>>, room, k) :
          f \in PixelFormats, room \in {0, 3}, k \in TextConfigs }
    \cup IdleTextCalls

MeasureCalls == IdleTextCalls \cup {TextCall("ok", "RGBA8888", <<1>>, 3, NullConfig)}

NextApi ==
    \/ Create({FontEmbedded, FontBroken}, {qurantextA})
    \/ CreateFails({FontEmbedded, FontBroken})
    \/ DrawPageRejected(ApiCalls)
    \/ DrawPageBegin(ApiCalls)
    \/ ShapeLine({GlyphWord, GlyphTajweed})
    \/ PaintLine
    \/ DrawPageReturn
    \/ DrawText(TextCalls)
    \/ MeasureText(MeasureCalls)
    \/ DrawMultilineText(TextCalls)
    \/ DrawWrappedText(TextCalls)

SpecApi == Init /\ [][NextApi]_vars

\* texts of up to MaxUnits characters, each a space, a tab, a newline, a Latin
\* letter or the two bytes of an Arabic letter
RECURSIVE TextsOf(_, _)
TextsOf(Units, n) ==
    IF n = 0 THEN {<<>>}
    ELSE TextsOf(Units, n - 1) \cup {t \o u : t \in TextsOf(Units, n - 1), u \in Units}

WrapUnits == {<<ByteSpace>>, <<ByteTab>>, <<97>>, <<216, 167>>}
MultilineUnits == {<<ByteNewline>>, <<97>>}

WrapConfigs ==
    { NullConfig,
      [ textColor |-> AutoTextColor, backgroundColor |-> Dark, tajweed |-> TRUE,
        fontSize |-> 20, lineWidth |-> 50, margin |-> 0 ] }

WrapCall(buffer, width, height, text, config) ==
    [ buffer |-> buffer, format |-> "RGBA8888", width |-> width, height |-> height,
      text |-> text, config |-> config ]

WrapCalls ==
    { WrapCall("ok", 100, 400, text, k) : text \in TextsOf(WrapUnits, MaxUnits), k \in WrapConfigs }
    \cup { WrapCall("ok", 100, 150, text, NullConfig) : text \in TextsOf(WrapUnits, MaxUnits) }
    \cup { WrapCall("nopixels", 100, 400, <<97>>, NullConfig),
           WrapCall("ok", 100, 400, NullText, NullConfig) }

MultilineCalls ==
    { WrapCall("ok", 100, height, text, k) :
          height \in {40, 400}, text \in TextsOf(MultilineUnits, MaxUnits), k \in WrapConfigs }
    \cup { WrapCall("nopixels", 100, 400, <<97>>, NullConfig),
           WrapCall("ok", 100, 400, NullText, NullConfig) }

\* what measure_text reports: the space ("ا ب" less "اب") and a word
SpaceMeasures == {0, 25}
WordWidths == {30, 60}

NextText ==
    \/ Create({FontEmbedded}, {qurantextA})
    \/ WrapBegin(WrapCalls, SpaceMeasures)
    \/ WrapWord(WordWidths)
    \/ WrapLinesBuilt
    \/ WrapDrawLine
    \/ WrapReturn
    \/ MultilineBegin(MultilineCalls)
    \/ MultilineLine
    \/ MultilineReturn
    \/ DrawTextCall(MultilineCalls)

SpecText == Init /\ [][NextText]_vars


NextKotlin ==
    \/ GetInstance
    \/ InitializeFont
    \/ InitializePath
    \/ SetFont
    \/ KotlinDestroy

SpecKotlin == Init /\ [][NextKotlin]_vars

PlanCalls ==
    { [ pageIndex |-> p, width |-> c[1], height |-> c[2], fontScale |-> 4 ] :
          p \in {0, 603, 604}, c \in Canvases }

NextPlan ==
    \/ Create({FontEmbedded}, {qurantextA})
    \/ OptimalLineHeightBegin(PlanCalls)
    \/ MeasurePageLine({GlyphWord, GlyphTajweed, GlyphOrnament})
    \/ OptimalLineHeightReturn

SpecPlan == Init /\ [][NextPlan]_vars

\* every corpus of three pages, the two opening pages and one other, with
\* at most MaxPageLines lines each
PageTexts == TextsOf({<<"bism">>, <<"sura">>, <<"text">>}, MaxPageLines) \ {<<>>}
Corpora == [{0, 1, 2} -> PageTexts]

NextCorpus ==
    \/ Create({FontEmbedded, FontPlain}, Corpora)
    \/ CreateFails({FontEmbedded, FontBroken})

SpecCorpus == Init /\ [][NextCorpus]_vars

NextRoundTrip ==
    \/ GetPageLocation
    \/ AyahPageOfLocation
    \/ GetAyahPage

SpecRoundTrip == InitMetadata /\ [][NextRoundTrip]_vars

\* the runs of at most MaxGlyphs glyphs, each known by its tatweel values
TatweelRuns == TextsOf({<<t>> : t \in Tatweels}, MaxGlyphs)

NextPaint ==
    \/ Create({FontEmbedded}, {qurantextA})
    \/ GlyphLoopBegin(TatweelRuns)
    \/ GlyphSetCoords
    \/ GlyphPaint
    \/ GlyphReset

SpecPaint == Init /\ [][NextPaint]_vars

RendererIds == 1..MaxRenderers

NextFuncs ==
    \/ RendererCreate(RendererIds)
    \/ RendererCreateFails(RendererIds)
    \/ RendererPaints
    \/ RendererDestroy

SpecFuncs == Init /\ [][NextFuncs]_vars

Next == NextLayout
Spec == SpecLayout

====
